---- MODULE Spec2Model ----
(***************************************************************************)
(* The SMS conversation state machine of albiware-task-agent and the       *)
(* retry / persistence policy layered on it.                               *)
(*                                                                         *)
(* The database is modelled by its committed rows: contacts,               *)
(* conversations and messages.  Every handler works on a SQLAlchemy        *)
(* session; what it flushes but never commits is discarded when the        *)
(* session is closed (sessionmaker(autocommit=False), get_db closes the    *)
(* session in its finally block).  Message texts are sequences of          *)
(* one-character strings so that lower(), strip() and the substring tests  *)
(* of the classifiers are computed as the code computes them.              *)
(*                                                                         *)
(* Time is counted in units of ten minutes.  Init is the state one day     *)
(* after the first contact sync: the synced contacts are                   *)
(* FOLLOW_UP_SCHEDULED and their follow-up is due.  Columns that no        *)
(* handler of the conversation flow reads (names, e-mail, address,         *)
(* contact_made_at, outcome_received_at, follow_up_sent_at, started_at,    *)
(* outcome_details) are left out of the rows.                              *)
(***************************************************************************)
EXTENDS Integers, Sequences, FiniteSets, TLC

VARIABLES contacts, conversations, messages, now, advances, failures,
          lastIn, ev, inflight, conc, reminder, notifications

vars == <<contacts, conversations, messages, now, advances, failures,
          lastIn, ev, inflight, conc, reminder, notifications>>

(***************************************************************************)
(* Bounds of the model                                                     *)
(***************************************************************************)
\* conversations rows that may exist
MaxConvs == 2
\* inbound rows of the messages table that may exist
MaxInbound == 6
\* number of times the clock advances
MaxAdvances == 2
\* sends the gateway refuses
MaxGatewayFailures == 1

(***************************************************************************)
(* Program constants                                                       *)
(***************************************************************************)
\* timedelta(minutes=10), the unit of time
TenMinutes == 1
\* timedelta(hours=2)
TwoHours == 12

\* a NULL DateTime column
NoTime == -1
\* a NULL String column
None == "None"

\* settings.technician_phone_number
TechPhone == "technician"
\* a number no conversation was ever opened with
OtherPhone == "stranger"

(***************************************************************************)
(* Strings                                                                 *)
(***************************************************************************)
UpperCase == <<"A","B","C","D","E","F","G","H","I","J","K","L","M","N","O","P","Q","R","S","T","U","V","W","X","Y","Z">>
LowerCase == <<"a","b","c","d","e","f","g","h","i","j","k","l","m","n","o","p","q","r","s","t","u","v","w","x","y","z">>

LowerChar(c) ==
    IF \E i \in 1..Len(UpperCase) : UpperCase[i] = c
    THEN LowerCase[CHOOSE i \in 1..Len(UpperCase) : UpperCase[i] = c]
    ELSE c

\* str.lower()
lower(s) == [i \in 1..Len(s) |-> LowerChar(s[i])]

IsSpace(c) == c = " "

\* str.strip()
strip(s) ==
    LET keep == {i \in 1..Len(s) : ~IsSpace(s[i])}
    IN  IF keep = {} THEN <<>>
        ELSE LET lo == CHOOSE i \in keep : \A j \in keep : i <= j
                 hi == CHOOSE i \in keep : \A j \in keep : j <= i
             IN  SubSeq(s, lo, hi)

\* `p in s` for Python strings
Contains(s, p) ==
    \E i \in 0..(Len(s) - Len(p)) : SubSeq(s, i + 1, i + Len(p)) = p

\* any(word in s for word in words)
ContainsAny(s, words) == \E w \in words : Contains(s, w)

(***************************************************************************)
(* Intent classification                                                   *)
(***************************************************************************)
yes_patterns == {<<"y","e","s">>, <<"y">>, <<"y","e","a","h">>, <<"y","e","p">>, <<"y","u","p">>, <<"s","u","r","e">>, <<"c","o","r","r","e","c","t">>, <<"a","f","f","i","r","m","a","t","i","v","e">>}
no_patterns == {<<"n","o">>, <<"n">>, <<"n","o","p","e">>, <<"n","a","h">>, <<"n","o","t"," ","y","e","t">>, <<"n","e","g","a","t","i","v","e">>}

_is_yes_response(response) == ContainsAny(response, yes_patterns)
_is_no_response(response) == ContainsAny(response, no_patterns)

appointment_words == {<<"1">>, <<"a","p","p","o","i","n","t","m","e","n","t">>, <<"a","p","p","t">>, <<"s","e","t">>, <<"s","c","h","e","d","u","l","e","d">>}
quotes_words == {<<"2">>, <<"q","u","o","t","e">>, <<"q","u","o","t","e","s">>, <<"e","s","t","i","m","a","t","e">>, <<"p","r","i","c","i","n","g">>}
waste_words == {<<"3">>, <<"w","a","s","t","e">>, <<"n","o"," ","i","n","t","e","r","e","s","t">>, <<"n","o","t"," ","i","n","t","e","r","e","s","t","e","d">>}
else_words == {<<"4">>, <<"e","l","s","e">>, <<"o","t","h","e","r">>, <<"d","i","f","f","e","r","e","n","t">>}

\* the ContactOutcome the reply names, or None
_parse_outcome(response) ==
    IF ContainsAny(response, appointment_words) THEN "appointment_set"
    ELSE IF ContainsAny(response, quotes_words) THEN "looking_for_quotes"
    ELSE IF ContainsAny(response, waste_words) THEN "waste_of_time"
    ELSE IF ContainsAny(response, else_words) THEN "something_else"
    ELSE None

project_type_map ==
    [k \in {<<"1">>, <<"2">>, <<"3">>, <<"4">>, <<"5">>, <<"6">>, <<"7">>} |->
        CASE k = <<"1">> -> "Emergency Mitigation Services"
          [] k = <<"2">> -> "Mold"
          [] k = <<"3">> -> "Reconstruction"
          [] k = <<"4">> -> "Sewage"
          [] k = <<"5">> -> "Biohazard"
          [] k = <<"6">> -> "Contents"
          [] k = <<"7">> -> "Vandalism"]

project_type_keywords == {<<"e","m","e","r","g","e","n","c","y">>, <<"m","i","t","i","g","a","t","i","o","n">>, <<"e","m","s">>, <<"m","o","l","d">>, <<"r","e","c","o","n","s","t","r","u","c","t","i","o","n">>, <<"s","e","w","a","g","e">>, <<"b","i","o","h","a","z","a","r","d">>, <<"c","o","n","t","e","n","t","s">>, <<"v","a","n","d","a","l","i","s","m">>}

\* the category the elif chain of _handle_project_type maps a reply to, None
\* when no branch but the default matches
ProjectTypeMapping(response) ==
    IF response \in DOMAIN project_type_map THEN project_type_map[response]
    ELSE IF ContainsAny(response, {<<"e","m","e","r","g","e","n","c","y">>, <<"m","i","t","i","g","a","t","i","o","n">>, <<"e","m","s">>})
         THEN "Emergency Mitigation Services"
    ELSE IF Contains(response, <<"m","o","l","d">>) THEN "Mold"
    ELSE IF ContainsAny(response, {<<"r","e","c","o","n","s","t","r","u","c","t","i","o","n">>, <<"r","e","c","o","n">>})
         THEN "Reconstruction"
    ELSE IF Contains(response, <<"s","e","w","a","g","e">>) THEN "Sewage"
    ELSE IF ContainsAny(response, {<<"b","i","o","h","a","z","a","r","d">>, <<"b","i","o">>})
         THEN "Biohazard"
    ELSE IF ContainsAny(response, {<<"c","o","n","t","e","n","t","s">>, <<"c","o","n","t","e","n","t">>})
         THEN "Contents"
    ELSE IF Contains(response, <<"v","a","n","d","a","l","i","s","m">>) THEN "Vandalism"
    ELSE None

\* the project type _handle_project_type stores, or None when it re-prompts
ProjectTypeOf(response) ==
    IF response \in DOMAIN project_type_map THEN project_type_map[response]
    ELSE IF ~ContainsAny(response, project_type_keywords) THEN None
    ELSE IF ContainsAny(response, {<<"e","m","e","r","g","e","n","c","y">>, <<"m","i","t","i","g","a","t","i","o","n">>, <<"e","m","s">>})
         THEN "Emergency Mitigation Services"
    ELSE IF Contains(response, <<"m","o","l","d">>) THEN "Mold"
    ELSE IF ContainsAny(response, {<<"r","e","c","o","n","s","t","r","u","c","t","i","o","n">>, <<"r","e","c","o","n">>})
         THEN "Reconstruction"
    ELSE IF Contains(response, <<"s","e","w","a","g","e">>) THEN "Sewage"
    ELSE IF ContainsAny(response, {<<"b","i","o","h","a","z","a","r","d">>, <<"b","i","o">>})
         THEN "Biohazard"
    ELSE IF ContainsAny(response, {<<"c","o","n","t","e","n","t","s">>, <<"c","o","n","t","e","n","t">>})
         THEN "Contents"
    ELSE IF Contains(response, <<"v","a","n","d","a","l","i","s","m">>) THEN "Vandalism"
    ELSE "Emergency Mitigation Services"

\* the property type _handle_property_type stores, or None when it re-prompts
PropertyTypeOf(response) ==
    IF response = <<"1">>
       \/ ContainsAny(response, {<<"r","e","s","i","d","e","n","t","i","a","l">>, <<"h","o","m","e">>, <<"h","o","u","s","e">>})
    THEN "Residential"
    ELSE IF response = <<"2">>
            \/ ContainsAny(response, {<<"c","o","m","m","e","r","c","i","a","l">>, <<"b","u","s","i","n","e","s","s">>})
    THEN "Commercial"
    ELSE None

\* the subtype _handle_residential_subtype stores, or None when it re-prompts
ResidentialSubtypeOf(response) ==
    IF response = <<"1">>
       \/ ContainsAny(response, {<<"s","i","n","g","l","e">>, <<"s","i","n","g","l","e"," ","f","a","m","i","l","y">>})
    THEN "Single Family Home"
    ELSE IF response = <<"2">>
            \/ ContainsAny(response, {<<"m","u","l","t","i">>, <<"m","u","l","t","i","-","f","a","m","i","l","y">>})
    THEN "Multi-Family Home"
    ELSE IF response = <<"3">>
            \/ ContainsAny(response, {<<"m","a","n","u","f","a","c","t","u","r","e","d">>, <<"m","o","b","i","l","e">>, <<"t","r","a","i","l","e","r">>})
    THEN "Manufactured Home"
    ELSE None

referral_map ==
    [k \in {<<"1">>, <<"2">>, <<"3">>, <<"4">>, <<"5">>, <<"6">>} |->
        CASE k = <<"1">> -> "Customer Referral"
          [] k = <<"2">> -> "Industry Partner"
          [] k = <<"3">> -> "Insurance Referral"
          [] k = <<"4">> -> "Lead Gen"
          [] k = <<"5">> -> "Online Marketing"
          [] k = <<"6">> -> "Plumber"]

referral_keywords == {<<"l","e","a","d">>, <<"c","u","s","t","o","m","e","r">>, <<"i","n","s","u","r","a","n","c","e">>, <<"o","n","l","i","n","e">>, <<"i","n","d","u","s","t","r","y">>, <<"p","l","u","m","b","e","r">>}

\* the referral source _handle_referral_source stores, or None when it re-prompts
ReferralSourceOf(response) ==
    IF response \in DOMAIN referral_map THEN referral_map[response]
    ELSE IF ~ContainsAny(response, referral_keywords) THEN None
    ELSE IF ContainsAny(response, {<<"c","u","s","t","o","m","e","r">>, <<"r","e","f","e","r","r","a","l">>})
         THEN "Customer Referral"
    ELSE IF ContainsAny(response, {<<"i","n","d","u","s","t","r","y">>, <<"p","a","r","t","n","e","r">>})
         THEN "Industry Partner"
    ELSE IF Contains(response, <<"i","n","s","u","r","a","n","c","e">>) THEN "Insurance Referral"
    ELSE IF Contains(response, <<"l","e","a","d">>) THEN "Lead Gen"
    ELSE IF ContainsAny(response, {<<"o","n","l","i","n","e">>, <<"m","a","r","k","e","t","i","n","g">>})
         THEN "Online Marketing"
    ELSE IF Contains(response, <<"p","l","u","m","b","e","r">>) THEN "Plumber"
    ELSE "Customer Referral"

(***************************************************************************)
(* Rows                                                                    *)
(***************************************************************************)
\* ConversationState
AWAITING_CONTACT_CONFIRMATION == "awaiting_contact_confirmation"
AWAITING_OUTCOME == "awaiting_outcome"
AWAITING_PROJECT_TYPE == "awaiting_project_type"
AWAITING_PROPERTY_TYPE == "awaiting_property_type"
AWAITING_RESIDENTIAL_SUBTYPE == "awaiting_residential_subtype"
AWAITING_INSURANCE == "awaiting_insurance"
AWAITING_INSURANCE_COMPANY == "awaiting_insurance_company"
AWAITING_REFERRAL_SOURCE == "awaiting_referral_source"
COMPLETED == "completed"

\* a Contact row with the column defaults, as sync_contacts schedules it
NewContact(phone, status, due) ==
    [phone_number |-> phone, status |-> status, outcome |-> "pending",
     follow_up_scheduled_at |-> due,
     project_creation_needed |-> FALSE, project_created |-> FALSE,
     project_type |-> None, property_type |-> None,
     residential_subtype |-> None, has_insurance |-> None,
     insurance_company |-> <<>>, referral_source |-> None,
     retry_count |-> 0, last_retry_at |-> NoTime,
     persistence_mode |-> FALSE, persistence_count |-> 0,
     last_persistence_at |-> NoTime]

\* an SMSConversation row as the follow-up code creates it
NewConversation(contact_id, phone, t) ==
    [contact_id |-> contact_id, state |-> AWAITING_CONTACT_CONFIRMATION,
     technician_phone |-> phone, contact_confirmed |-> FALSE,
     outcome |-> None, last_message_at |-> t, completed_at |-> NoTime]

\* an SMSMessage row
NewMessage(conversation_id, contact_id, direction, twilio_sid, kind) ==
    [conversation_id |-> conversation_id, contact_id |-> contact_id,
     direction |-> direction, twilio_sid |-> twilio_sid, kind |-> kind]

\* one call of SMSService.send_sms: ok is the gateway's answer
Send(to, kind, conversation_id, contact_id, ok) ==
    [to |-> to, kind |-> kind, conversation_id |-> conversation_id,
     contact_id |-> contact_id, ok |-> ok]

\* the SMSMessage rows send_sms adds to the session for one call
send_sms(msgs, s) ==
    IF s.ok /\ s.contact_id # 0 /\ s.conversation_id # 0
    THEN Append(msgs, NewMessage(s.conversation_id, s.contact_id, "outbound",
                                 0 - (Len(msgs) + 1), s.kind))
    ELSE msgs

(***************************************************************************)
(* The handlers of ConversationHandler.  Each takes the conversation and   *)
(* contact objects of the session, the message body and the time, and      *)
(* returns the objects as the handler leaves them, the prompt it passes to *)
(* send_sms, whether it reaches db.commit(), and the intent it read.       *)
(***************************************************************************)
Handled(conversation, contact, kind, commit, intent) ==
    [conversation |-> conversation, contact |-> contact, kind |-> kind,
     commit |-> commit, intent |-> intent]

\* a YES that leaves persistence_mode as it was
ConfirmationKeepingPersistence(conversation, contact, message_body, t) ==
    LET response_lower == strip(lower(message_body))
    IN  IF _is_yes_response(response_lower)
        THEN Handled([conversation EXCEPT !.contact_confirmed = TRUE,
                                          !.state = AWAITING_OUTCOME,
                                          !.last_message_at = t],
                     [contact EXCEPT !.status = "contact_made"],
                     "outcome_prompt", TRUE, "YES")
        ELSE IF _is_no_response(response_lower)
        THEN Handled([conversation EXCEPT !.contact_confirmed = FALSE,
                                          !.last_message_at = t],
                     [contact EXCEPT !.retry_count = @ + 1,
                                     !.last_retry_at = t],
                     "retry_acknowledgment", TRUE, "NO")
        ELSE Handled(conversation, contact, "confirmation_reprompt", FALSE,
                     "unrecognized")

\* a confirmation that stamps the conversation with the time the follow-up
\* was scheduled for
ConfirmationStampingSchedule(conversation, contact, message_body, t) ==
    LET response_lower == strip(lower(message_body))
    IN  IF _is_yes_response(response_lower)
        THEN Handled([conversation EXCEPT
                         !.contact_confirmed = TRUE,
                         !.state = AWAITING_OUTCOME,
                         !.last_message_at = contact.follow_up_scheduled_at],
                     [contact EXCEPT !.status = "contact_made",
                                     !.persistence_mode = FALSE],
                     "outcome_prompt", TRUE, "YES")
        ELSE IF _is_no_response(response_lower)
        THEN Handled([conversation EXCEPT
                         !.contact_confirmed = FALSE,
                         !.last_message_at = contact.follow_up_scheduled_at],
                     [contact EXCEPT !.retry_count = @ + 1,
                                     !.last_retry_at = t],
                     "retry_acknowledgment", TRUE, "NO")
        ELSE Handled(conversation, contact, "confirmation_reprompt", FALSE,
                     "unrecognized")

\* a NO that records a retry without counting it up
ConfirmationNotCounting(conversation, contact, message_body, t) ==
    LET response_lower == strip(lower(message_body))
    IN  IF _is_yes_response(response_lower)
        THEN Handled([conversation EXCEPT !.contact_confirmed = TRUE,
                                          !.state = AWAITING_OUTCOME,
                                          !.last_message_at = t],
                     [contact EXCEPT !.status = "contact_made",
                                     !.persistence_mode = FALSE],
                     "outcome_prompt", TRUE, "YES")
        ELSE IF _is_no_response(response_lower)
        THEN Handled([conversation EXCEPT !.contact_confirmed = FALSE,
                                          !.last_message_at = t],
                     [contact EXCEPT !.retry_count = 1,
                                     !.last_retry_at = t],
                     "retry_acknowledgment", TRUE, "NO")
        ELSE Handled(conversation, contact, "confirmation_reprompt", FALSE,
                     "unrecognized")

_handle_contact_confirmation(conversation, contact, message_body, t) ==
    LET response_lower == strip(lower(message_body))
    IN  IF _is_yes_response(response_lower)
        THEN Handled([conversation EXCEPT !.contact_confirmed = TRUE,
                                          !.state = AWAITING_OUTCOME,
                                          !.last_message_at = t],
                     [contact EXCEPT !.status = "contact_made",
                                     !.persistence_mode = FALSE],
                     "outcome_prompt", TRUE, "YES")
        ELSE IF _is_no_response(response_lower)
        THEN Handled([conversation EXCEPT !.contact_confirmed = FALSE,
                                          !.last_message_at = t],
                     [contact EXCEPT !.retry_count = @ + 1,
                                     !.last_retry_at = t],
                     "retry_acknowledgment", TRUE, "NO")
        ELSE Handled(conversation, contact, "confirmation_reprompt", FALSE,
                     "unrecognized")

\* an appointment that does not ask for the project to be created
OutcomeWithoutProject(conversation, contact, message_body, t) ==
    LET response_lower == strip(lower(message_body))
        outcome == _parse_outcome(response_lower)
    IN  IF outcome = None
        THEN Handled(conversation, contact, "outcome_reprompt", FALSE,
                     "unrecognized")
        ELSE IF outcome = "appointment_set"
        THEN Handled([conversation EXCEPT !.outcome = outcome,
                                          !.state = AWAITING_PROJECT_TYPE,
                                          !.completed_at = NoTime,
                                          !.last_message_at = t],
                     [contact EXCEPT !.outcome = outcome,
                                     !.status = "awaiting_response"],
                     "project_type_prompt", TRUE, outcome)
        ELSE Handled([conversation EXCEPT !.outcome = outcome,
                                          !.state = COMPLETED,
                                          !.completed_at = t,
                                          !.last_message_at = t],
                     [contact EXCEPT !.outcome = outcome,
                                     !.status = "completed"],
                     "outcome_acknowledgment", TRUE, outcome)

\* a project that is asked for whatever the outcome is
OutcomeProjectForAll(conversation, contact, message_body, t) ==
    LET response_lower == strip(lower(message_body))
        outcome == _parse_outcome(response_lower)
    IN  IF outcome = None
        THEN Handled(conversation, contact, "outcome_reprompt", FALSE,
                     "unrecognized")
        ELSE IF outcome = "appointment_set"
        THEN Handled([conversation EXCEPT !.outcome = outcome,
                                          !.state = AWAITING_PROJECT_TYPE,
                                          !.completed_at = NoTime,
                                          !.last_message_at = t],
                     [contact EXCEPT !.outcome = outcome,
                                     !.project_creation_needed = TRUE,
                                     !.status = "awaiting_response"],
                     "project_type_prompt", TRUE, outcome)
        ELSE Handled([conversation EXCEPT !.outcome = outcome,
                                          !.state = COMPLETED,
                                          !.completed_at = t,
                                          !.last_message_at = t],
                     [contact EXCEPT !.outcome = outcome,
                                     !.project_creation_needed = TRUE,
                                     !.status = "completed"],
                     "outcome_acknowledgment", TRUE, outcome)

\* an outcome that closes the conversation without stamping completed_at
OutcomeWithoutStamp(conversation, contact, message_body, t) ==
    LET response_lower == strip(lower(message_body))
        outcome == _parse_outcome(response_lower)
    IN  IF outcome = None
        THEN Handled(conversation, contact, "outcome_reprompt", FALSE,
                     "unrecognized")
        ELSE IF outcome = "appointment_set"
        THEN Handled([conversation EXCEPT !.outcome = outcome,
                                          !.state = AWAITING_PROJECT_TYPE,
                                          !.completed_at = NoTime,
                                          !.last_message_at = t],
                     [contact EXCEPT !.outcome = outcome,
                                     !.project_creation_needed = TRUE,
                                     !.status = "awaiting_response"],
                     "project_type_prompt", TRUE, outcome)
        ELSE Handled([conversation EXCEPT !.outcome = outcome,
                                          !.state = COMPLETED,
                                          !.last_message_at = t],
                     [contact EXCEPT !.outcome = outcome,
                                     !.status = "completed"],
                     "outcome_acknowledgment", TRUE, outcome)

_handle_outcome_response(conversation, contact, message_body, t) ==
    LET response_lower == strip(lower(message_body))
        outcome == _parse_outcome(response_lower)
    IN  IF outcome = None
        THEN Handled(conversation, contact, "outcome_reprompt", FALSE,
                     "unrecognized")
        ELSE IF outcome = "appointment_set"
        THEN Handled([conversation EXCEPT !.outcome = outcome,
                                          !.state = AWAITING_PROJECT_TYPE,
                                          !.completed_at = NoTime,
                                          !.last_message_at = t],
                     [contact EXCEPT !.outcome = outcome,
                                     !.project_creation_needed = TRUE,
                                     !.status = "awaiting_response"],
                     "project_type_prompt", TRUE, outcome)
        ELSE Handled([conversation EXCEPT !.outcome = outcome,
                                          !.state = COMPLETED,
                                          !.completed_at = t,
                                          !.last_message_at = t],
                     [contact EXCEPT !.outcome = outcome,
                                     !.status = "completed"],
                     "outcome_acknowledgment", TRUE, outcome)

_handle_project_type(conversation, contact, message_body, t) ==
    LET response == lower(strip(message_body))
        project_type == ProjectTypeOf(response)
    IN  IF project_type = None
        THEN Handled(conversation, contact, "project_type_reprompt", FALSE,
                     "unrecognized")
        ELSE Handled([conversation EXCEPT !.state = AWAITING_PROPERTY_TYPE,
                                          !.last_message_at = t],
                     [contact EXCEPT !.project_type = project_type],
                     "property_type_prompt", TRUE, project_type)

\* a property type after which the subtype is asked whatever the type is
PropertyTypeAlwaysSubtype(conversation, contact, message_body, t) ==
    LET response == lower(strip(message_body))
        property_type == PropertyTypeOf(response)
    IN  IF property_type = None
        THEN Handled(conversation, contact, "property_type_reprompt", FALSE,
                     "unrecognized")
        ELSE Handled([conversation EXCEPT !.state = AWAITING_RESIDENTIAL_SUBTYPE,
                                          !.last_message_at = t],
                     [contact EXCEPT !.property_type = property_type],
                     "residential_subtype_prompt", TRUE, property_type)

_handle_property_type(conversation, contact, message_body, t) ==
    LET response == lower(strip(message_body))
        property_type == PropertyTypeOf(response)
    IN  IF property_type = None
        THEN Handled(conversation, contact, "property_type_reprompt", FALSE,
                     "unrecognized")
        ELSE IF property_type = "Residential"
        THEN Handled([conversation EXCEPT !.state = AWAITING_RESIDENTIAL_SUBTYPE,
                                          !.last_message_at = t],
                     [contact EXCEPT !.property_type = property_type],
                     "residential_subtype_prompt", TRUE, property_type)
        ELSE Handled([conversation EXCEPT !.state = AWAITING_INSURANCE,
                                          !.last_message_at = t],
                     [contact EXCEPT !.property_type = property_type],
                     "insurance_prompt", TRUE, property_type)

\* a subtype answer after which the insurance questions are left out
SubtypeSkippingInsurance(conversation, contact, message_body, t) ==
    LET response == lower(strip(message_body))
        residential_subtype == ResidentialSubtypeOf(response)
    IN  IF residential_subtype = None
        THEN Handled(conversation, contact, "residential_subtype_reprompt",
                     FALSE, "unrecognized")
        ELSE Handled([conversation EXCEPT !.state = AWAITING_REFERRAL_SOURCE,
                                          !.last_message_at = t],
                     [contact EXCEPT !.residential_subtype = residential_subtype],
                     "referral_source_prompt", TRUE, residential_subtype)

_handle_residential_subtype(conversation, contact, message_body, t) ==
    LET response == lower(strip(message_body))
        residential_subtype == ResidentialSubtypeOf(response)
    IN  IF residential_subtype = None
        THEN Handled(conversation, contact, "residential_subtype_reprompt",
                     FALSE, "unrecognized")
        ELSE Handled([conversation EXCEPT !.state = AWAITING_INSURANCE,
                                          !.last_message_at = t],
                     [contact EXCEPT !.residential_subtype = residential_subtype],
                     "insurance_prompt", TRUE, residential_subtype)

\* a NO that sends the conversation back to the project type question
InsuranceStartingOver(conversation, contact, message_body, t) ==
    LET response == lower(strip(message_body))
    IN  IF _is_yes_response(response)
        THEN Handled([conversation EXCEPT !.state = AWAITING_INSURANCE_COMPANY,
                                          !.last_message_at = t],
                     [contact EXCEPT !.has_insurance = "True"],
                     "insurance_company_prompt", TRUE, "YES")
        ELSE IF _is_no_response(response)
        THEN Handled([conversation EXCEPT !.state = AWAITING_PROJECT_TYPE,
                                          !.last_message_at = t],
                     [contact EXCEPT !.has_insurance = "False"],
                     "project_type_prompt", TRUE, "NO")
        ELSE Handled(conversation, contact, "insurance_reprompt", FALSE,
                     "unrecognized")

_handle_insurance(conversation, contact, message_body, t) ==
    LET response == lower(strip(message_body))
    IN  IF _is_yes_response(response)
        THEN Handled([conversation EXCEPT !.state = AWAITING_INSURANCE_COMPANY,
                                          !.last_message_at = t],
                     [contact EXCEPT !.has_insurance = "True"],
                     "insurance_company_prompt", TRUE, "YES")
        ELSE IF _is_no_response(response)
        THEN Handled([conversation EXCEPT !.state = AWAITING_REFERRAL_SOURCE,
                                          !.last_message_at = t],
                     [contact EXCEPT !.has_insurance = "False"],
                     "referral_source_prompt", TRUE, "NO")
        ELSE Handled(conversation, contact, "insurance_reprompt", FALSE,
                     "unrecognized")

\* an insurance company stored in lower case
InsuranceCompanyLowered(conversation, contact, message_body, t) ==
    Handled([conversation EXCEPT !.state = AWAITING_REFERRAL_SOURCE,
                                 !.last_message_at = t],
            [contact EXCEPT !.insurance_company = <<lower(strip(message_body))>>],
            "referral_source_prompt", TRUE, "text")

_handle_insurance_company(conversation, contact, message_body, t) ==
    Handled([conversation EXCEPT !.state = AWAITING_REFERRAL_SOURCE,
                                 !.last_message_at = t],
            [contact EXCEPT !.insurance_company = <<strip(message_body)>>],
            "referral_source_prompt", TRUE, "text")

\* an unrecognized referral source that is stored as the default source
ReferralDefaulting(conversation, contact, message_body, t) ==
    LET response == lower(strip(message_body))
        referral_source == ReferralSourceOf(response)
    IN  IF referral_source = None
        THEN Handled([conversation EXCEPT !.state = COMPLETED,
                                          !.completed_at = t,
                                          !.last_message_at = t],
                     [contact EXCEPT !.referral_source = "Customer Referral",
                                     !.status = "completed"],
                     "summary", TRUE, "unrecognized")
        ELSE Handled([conversation EXCEPT !.state = COMPLETED,
                                          !.completed_at = t,
                                          !.last_message_at = t],
                     [contact EXCEPT !.referral_source = referral_source,
                                     !.status = "completed"],
                     "summary", TRUE, referral_source)

\* a referral source that completes the conversation without the time of
\* completion and without marking the contact
ReferralWithoutCompletion(conversation, contact, message_body, t) ==
    LET response == lower(strip(message_body))
        referral_source == ReferralSourceOf(response)
    IN  IF referral_source = None
        THEN Handled(conversation, contact, "referral_source_reprompt", FALSE,
                     "unrecognized")
        ELSE Handled([conversation EXCEPT !.state = COMPLETED,
                                          !.last_message_at = t],
                     [contact EXCEPT !.referral_source = referral_source],
                     "summary", TRUE, referral_source)

_handle_referral_source(conversation, contact, message_body, t) ==
    LET response == lower(strip(message_body))
        referral_source == ReferralSourceOf(response)
    IN  IF referral_source = None
        THEN Handled(conversation, contact, "referral_source_reprompt", FALSE,
                     "unrecognized")
        ELSE Handled([conversation EXCEPT !.state = COMPLETED,
                                          !.completed_at = t,
                                          !.last_message_at = t],
                     [contact EXCEPT !.referral_source = referral_source,
                                     !.status = "completed"],
                     "summary", TRUE, referral_source)

\* the states handle_incoming_sms dispatches on
HandlerStates ==
    {AWAITING_CONTACT_CONFIRMATION, AWAITING_OUTCOME, AWAITING_PROJECT_TYPE,
     AWAITING_PROPERTY_TYPE, AWAITING_RESIDENTIAL_SUBTYPE, AWAITING_INSURANCE,
     AWAITING_INSURANCE_COMPANY, AWAITING_REFERRAL_SOURCE}

\* the if/elif chain of handle_incoming_sms
Dispatch(conversation, contact, message_body, t) ==
    CASE conversation.state = AWAITING_CONTACT_CONFIRMATION ->
            _handle_contact_confirmation(conversation, contact, message_body, t)
      [] conversation.state = AWAITING_OUTCOME ->
            _handle_outcome_response(conversation, contact, message_body, t)
      [] conversation.state = AWAITING_PROJECT_TYPE ->
            _handle_project_type(conversation, contact, message_body, t)
      [] conversation.state = AWAITING_PROPERTY_TYPE ->
            _handle_property_type(conversation, contact, message_body, t)
      [] conversation.state = AWAITING_RESIDENTIAL_SUBTYPE ->
            _handle_residential_subtype(conversation, contact, message_body, t)
      [] conversation.state = AWAITING_INSURANCE ->
            _handle_insurance(conversation, contact, message_body, t)
      [] conversation.state = AWAITING_INSURANCE_COMPANY ->
            _handle_insurance_company(conversation, contact, message_body, t)
      [] conversation.state = AWAITING_REFERRAL_SOURCE ->
            _handle_referral_source(conversation, contact, message_body, t)

(***************************************************************************)
(* The database and the operations on it                                   *)
(***************************************************************************)
\* the committed rows, as one value
Database == [contacts |-> contacts, conversations |-> conversations,
             messages |-> messages]

Min(S) == CHOOSE x \in S : \A y \in S : x <= y

\* what the last operation was and did
Event(op, conversation_id, pre_state, intent, sends, committed) ==
    [op |-> op, conversation_id |-> conversation_id, pre_state |-> pre_state,
     intent |-> intent, sends |-> sends, committed |-> committed]

NoEvent(op) == Event(op, 0, None, None, <<>>, FALSE)

\* the query without its filter on the state
ConversationsOfSender(db, from_number) ==
    {i \in 1..Len(db.conversations) :
        db.conversations[i].technician_phone = from_number}

\* the query of handle_incoming_sms without its order_by and first()
ActiveConversations(db, from_number) ==
    {i \in 1..Len(db.conversations) :
        /\ db.conversations[i].technician_phone = from_number
        /\ db.conversations[i].state # COMPLETED}

\* an ascending order: any of the least recent ones
LeastRecentConversations(db, from_number) ==
    {i \in ActiveConversations(db, from_number) :
        \A j \in ActiveConversations(db, from_number) :
            db.conversations[i].last_message_at
                <= db.conversations[j].last_message_at}

\* order_by(last_message_at.desc()).first(): any of the most recent ones
MostRecentConversations(db, from_number) ==
    {i \in ActiveConversations(db, from_number) :
        \A j \in ActiveConversations(db, from_number) :
            db.conversations[j].last_message_at
                <= db.conversations[i].last_message_at}

\* _log_incoming_message: the row it adds; the flush fails on a twilio_sid
\* that a committed row already holds (twilio_sid is unique)
SidTaken(db, twilio_sid) ==
    \E k \in 1..Len(db.messages) : db.messages[k].twilio_sid = twilio_sid

_log_incoming_message(db, id, twilio_sid) ==
    Append(db.messages,
           NewMessage(id, db.conversations[id].contact_id, "inbound",
                      twilio_sid, "reply"))

\* handle_incoming_sms on the rows db, for the conversation id that first()
\* returned (0 when the query found none); gw is the gateway's answer
handle_incoming_sms(db, from_number, message_body, twilio_sid, gw, id, t) ==
    IF id = 0
    THEN [db |-> db,
          ev |-> Event("inbound", 0, None, "no_conversation",
                       <<Send(from_number, "no_active_conversation", 0, 0, gw)>>,
                       FALSE)]
    ELSE
    LET conversation == db.conversations[id]
        contact == db.contacts[conversation.contact_id]
    IN  IF SidTaken(db, twilio_sid)
        THEN [db |-> db,
              ev |-> Event("inbound", id, conversation.state, "integrity_error", <<>>,
                           FALSE)]
        ELSE IF conversation.state \notin HandlerStates
        THEN [db |-> db,
              ev |-> Event("inbound", id, conversation.state, "unknown_state", <<>>,
                           FALSE)]
        ELSE
        LET h == Dispatch(conversation, contact, message_body, t)
            s == Send(conversation.technician_phone, h.kind, id,
                      conversation.contact_id, gw)
            logged == _log_incoming_message(db, id, twilio_sid)
        IN  [db |-> IF h.commit
                    THEN [contacts |-> [db.contacts EXCEPT
                                          ![conversation.contact_id] = h.contact],
                          conversations |-> [db.conversations EXCEPT
                                          ![id] = h.conversation],
                          messages |-> send_sms(logged, s)]
                    ELSE db,
             ev |-> Event("inbound", id, conversation.state, h.intent, <<s>>, h.commit)]

\* the contacts _process_two_hour_retries selects
\* a selection that does not look at the age of last_retry_at
RetryContactsOfAnyAge(db, t) ==
    {c \in 1..Len(db.contacts) :
        /\ db.contacts[c].last_retry_at # NoTime
        /\ \E k \in 1..Len(db.conversations) :
              /\ db.conversations[k].contact_id = c
              /\ db.conversations[k].state = AWAITING_CONTACT_CONFIRMATION
              /\ db.conversations[k].completed_at = NoTime}

RetryContacts(db, t) ==
    {c \in 1..Len(db.contacts) :
        /\ db.contacts[c].last_retry_at # NoTime
        /\ db.contacts[c].last_retry_at <= t - TwoHours
        /\ \E k \in 1..Len(db.conversations) :
              /\ db.conversations[k].contact_id = c
              /\ db.conversations[k].state = AWAITING_CONTACT_CONFIRMATION
              /\ db.conversations[k].completed_at = NoTime}

\* the conversations the loop's query returns for a contact
\* a query that leaves out the filter on contact_id
RetryConversationsOfAnyContact(db, c) ==
    {k \in 1..Len(db.conversations) :
        /\ db.conversations[k].state = AWAITING_CONTACT_CONFIRMATION
        /\ db.conversations[k].completed_at = NoTime}

RetryConversations(db, c) ==
    {k \in 1..Len(db.conversations) :
        /\ db.conversations[k].contact_id = c
        /\ db.conversations[k].state = AWAITING_CONTACT_CONFIRMATION
        /\ db.conversations[k].completed_at = NoTime}

\* the loop of _process_two_hour_retries over the contacts todo; ok holds the
\* contacts whose send the gateway accepts
RECURSIVE RetryLoop(_, _, _, _, _)
RetryLoop(db, todo, ok, t, sends) ==
    IF todo = {} THEN [db |-> db, sends |-> sends]
    ELSE
    LET c == Min(todo)
        rest == todo \ {c}
    IN  IF RetryConversations(db, c) = {}
        THEN RetryLoop(db, rest, ok, t, sends)
        ELSE
        LET k == Min(RetryConversations(db, c))
            s == Send(db.conversations[k].technician_phone, "retry_prompt",
                      k, c, c \in ok)
        IN  IF s.ok
            THEN RetryLoop([db EXCEPT !.contacts[c].last_retry_at = t,
                                      !.messages = send_sms(@, s)],
                           rest, ok, t, Append(sends, s))
            ELSE RetryLoop(db, rest, ok, t, Append(sends, s))

_process_two_hour_retries(db, ok, t) ==
    RetryLoop(db, RetryContacts(db, t), ok, t, <<>>)

\* a selection that leaves out the contacts already in persistence mode
PersistenceOnlyOnce(db, t) ==
    {k \in 1..Len(db.conversations) :
        /\ db.conversations[k].state = AWAITING_CONTACT_CONFIRMATION
        /\ db.conversations[k].last_message_at <= t - TenMinutes
        /\ db.conversations[k].completed_at = NoTime
        /\ ~db.contacts[db.conversations[k].contact_id].persistence_mode}

\* a selection by the time of the last message alone
PersistenceAnyState(db, t) ==
    {k \in 1..Len(db.conversations) :
        db.conversations[k].last_message_at <= t - TenMinutes}

\* the conversations _process_persistence_mode selects
PersistenceConversations(db, t) ==
    {k \in 1..Len(db.conversations) :
        /\ db.conversations[k].state = AWAITING_CONTACT_CONFIRMATION
        /\ db.conversations[k].last_message_at <= t - TenMinutes
        /\ db.conversations[k].completed_at = NoTime}

\* the loop of _process_persistence_mode: sess is what the session holds
\* (persistence_mode is set before the send), comm what is committed; a
\* commit writes everything the session holds
RECURSIVE PersistenceLoop(_, _, _, _, _, _)
PersistenceLoop(sess, comm, todo, ok, t, sends) ==
    IF todo = {} THEN [db |-> comm, sends |-> sends]
    ELSE
    LET k == Min(todo)
        rest == todo \ {k}
        c == sess.conversations[k].contact_id
        contact == sess.contacts[c]
        should_send_persistence ==
            contact.persistence_mode \/ contact.last_retry_at = NoTime
        entered == [sess EXCEPT !.contacts[c].persistence_mode = TRUE]
        s == Send(sess.conversations[k].technician_phone,
                  IF contact.persistence_count = 0
                  THEN "persistence_activated" ELSE "persistence_reminder",
                  k, c, k \in ok)
        sent == [entered EXCEPT
                    !.contacts[c].persistence_count = @ + 1,
                    !.contacts[c].last_persistence_at = t,
                    !.conversations[k].last_message_at = t,
                    !.messages = send_sms(@, s)]
    IN  IF ~should_send_persistence
        THEN PersistenceLoop(sess, comm, rest, ok, t, sends)
        ELSE IF s.ok
        THEN PersistenceLoop(sent, sent, rest, ok, t, Append(sends, s))
        ELSE PersistenceLoop(entered, comm, rest, ok, t, Append(sends, s))

_process_persistence_mode(db, ok, t) ==
    PersistenceLoop(db, db, PersistenceConversations(db, t), ok, t, <<>>)

\* okR: the contacts whose retry the gateway accepts, okP: the conversations
\* whose persistence message it accepts
process_retries_and_persistence(db, okR, okP, t) ==
    LET r == _process_two_hour_retries(db, okR, t)
        p == _process_persistence_mode(r.db, okP, t)
    IN  [db |-> p.db, sends |-> r.sends \o p.sends]

\* the contacts process_scheduled_follow_ups selects
ContactsDue(db, t) ==
    {c \in 1..Len(db.contacts) :
        /\ db.contacts[c].status = "follow_up_scheduled"
        /\ db.contacts[c].follow_up_scheduled_at # NoTime
        /\ db.contacts[c].follow_up_scheduled_at <= t}

\* the loop of process_scheduled_follow_ups with _send_follow_up_sms inlined;
\* the one db.commit() after the loop writes everything the session holds
RECURSIVE FollowUpLoop(_, _, _, _, _, _)
FollowUpLoop(db, todo, technician_phone, ok, t, sends) ==
    IF todo = {} THEN [db |-> db, sends |-> sends]
    ELSE
    LET c == Min(todo)
        id == Len(db.conversations) + 1
        s == Send(technician_phone, "initial_prompt", id, c, c \in ok)
        added == [db EXCEPT !.conversations =
                     Append(@, NewConversation(c, technician_phone, t))]
        sent == [added EXCEPT !.contacts[c].status = "follow_up_sent",
                              !.conversations[id].last_message_at = t,
                              !.messages = send_sms(@, s)]
    IN  FollowUpLoop(IF s.ok THEN sent ELSE added, todo \ {c},
                     technician_phone, ok, t, Append(sends, s))

process_scheduled_follow_ups(db, technician_phone, ok, t) ==
    FollowUpLoop(db, ContactsDue(db, t), technician_phone, ok, t, <<>>)

\* the contact test_send_followup finds by phone number, 0 when there is none
ContactByPhone(db, contact_phone) ==
    IF \E c \in 1..Len(db.contacts) : db.contacts[c].phone_number = contact_phone
    THEN Min({c \in 1..Len(db.contacts) :
                db.contacts[c].phone_number = contact_phone})
    ELSE 0

\* the endpoint /api/test/send-followup: nothing is committed unless the
\* gateway accepts the message
test_send_followup(db, contact_phone, gw, t) ==
    LET found == ContactByPhone(db, contact_phone)
        withContact ==
            IF found = 0
            THEN [db EXCEPT !.contacts =
                     Append(@, NewContact(contact_phone, "follow_up_scheduled",
                                          NoTime))]
            ELSE db
        c == IF found = 0 THEN Len(db.contacts) + 1 ELSE found
        id == Len(db.conversations) + 1
        s == Send(TechPhone, "initial_prompt", id, c, gw)
        sent == [withContact EXCEPT
                    !.conversations = Append(@, NewConversation(c, TechPhone, t)),
                    !.messages = send_sms(@, s),
                    !.contacts[c].status = "follow_up_sent"]
    IN  [db |-> IF gw THEN sent ELSE db, sends |-> <<s>>]

(***************************************************************************)
(* Inputs                                                                  *)
(***************************************************************************)
\* the texts the technician sends
Bodies ==
    {<<"Y","e","s">>, <<"n","o">>, <<"1">>, <<"2">>,
     <<" ","S","t","a","t","e"," ","F","a","r","m"," ">>}

\* the text the stranger sends
StrangerBody == <<"Y","e","s">>

\* the numbers inbound messages come from
Phones == {TechPhone, OtherPhone}

\* the phone numbers of the leads: the first belongs to the synced contact
ContactPhones == {"lead1", "lead2"}

\* no round of operations in flight
NoRound == [base |-> [contacts |-> <<>>, conversations |-> <<>>,
                      messages |-> <<>>], done |-> {}]

\* the inbound message delivered last and whether it was delivered once (1)
\* or more often (2); Twilio repeats a delivery within seconds, before any
\* other operation runs
NoDelivery == [from_number |-> None, body |-> <<>>, twilio_sid |-> 0,
               deliveries |-> 0]

\* the inbound rows of the messages table
InboundRows(msgs) ==
    {k \in 1..Len(msgs) : msgs[k].direction = "inbound"}

\* the MessageSid of a message Twilio delivers for the first time: one that
\* no row holds
FreshSid(msgs) == Cardinality(InboundRows(msgs)) + 1

\* the sends of an operation that the gateway refused
RECURSIVE Refused(_)
Refused(sends) ==
    IF sends = <<>> THEN 0
    ELSE (IF Head(sends).ok THEN 0 ELSE 1) + Refused(Tail(sends))

(***************************************************************************)
(* The state machine                                                       *)
(***************************************************************************)
\* the task reminder sent last: none yet
NoReminder == [due_date |-> None, body |-> <<>>, sid |-> None]

Init ==
    /\ contacts = <<NewContact("lead1", "follow_up_scheduled", 0)>>
    /\ conversations = <<>>
    /\ messages = <<>>
    /\ now = 0
    /\ advances = 0
    /\ failures = 0
    /\ lastIn = NoDelivery
    /\ ev = NoEvent("start")
    /\ inflight = <<>>
    /\ conc = NoRound
    /\ reminder = NoReminder
    /\ notifications = <<>>

\* the operation ends: db is what it committed, e what it did
Finish(db, e) ==
    /\ failures + Refused(e.sends) <= MaxGatewayFailures
    /\ failures' = failures + Refused(e.sends)
    /\ contacts' = db.contacts
    /\ conversations' = db.conversations
    /\ messages' = db.messages
    /\ ev' = e

\* the clock moves on by ten minutes or by two hours
AdvanceTime ==
    /\ advances < MaxAdvances
    /\ \E d \in {TenMinutes, TwoHours} : now' = now + d
    /\ advances' = advances + 1
    /\ ev' = NoEvent("advance_time")
    /\ lastIn' = NoDelivery
    /\ UNCHANGED <<contacts, conversations, messages, failures, inflight,
                   conc, reminder, notifications>>

\* scheduled_contact_sync: the follow-ups that are due are sent, while the
\* table holds no more than maxConvs conversations afterwards; the gateway
\* may refuse a follow-up when mayFail
FollowUps(maxConvs, mayFail) ==
    /\ Len(conversations) + Cardinality(ContactsDue(Database, now)) <= maxConvs
    /\ \E ok \in SUBSET ContactsDue(Database, now) :
          /\ mayFail \/ ok = ContactsDue(Database, now)
          /\
             LET r == process_scheduled_follow_ups(Database, TechPhone, ok, now)
             IN  Finish(r.db, Event("follow_ups", 0, None, None, r.sends, TRUE))
    /\ lastIn' = NoDelivery
    /\ UNCHANGED <<now, advances, inflight, conc, reminder, notifications>>

ScheduledFollowUps == FollowUps(MaxConvs, TRUE)

\* POST /api/test/send-followup
TestSendFollowup ==
    /\ Len(conversations) < MaxConvs
    /\ \E contact_phone \in ContactPhones, gw \in BOOLEAN :
          LET r == test_send_followup(Database, contact_phone, gw, now)
          IN  Finish(r.db, Event("test_followup", 0, None, None, r.sends, gw))
    /\ lastIn' = NoDelivery
    /\ UNCHANGED <<now, advances, inflight, conc, reminder, notifications>>

\* the timer calls process_retries_and_persistence
SchedulerTick ==
    /\ \E okR \in SUBSET RetryContacts(Database, now),
          okP \in SUBSET PersistenceConversations(Database, now) :
          LET r == process_retries_and_persistence(Database, okR, okP, now)
          IN  Finish(r.db, Event("tick", 0, None, None, r.sends,
                                 r.db # Database))
    /\ lastIn' = NoDelivery
    /\ UNCHANGED <<now, advances, inflight, conc, reminder, notifications>>

\* first() of the query of handle_incoming_sms
FirstConversation(db, from_number) ==
    IF MostRecentConversations(db, from_number) = {} THEN {0}
    ELSE MostRecentConversations(db, from_number)

\* POST /webhooks/twilio/sms with a message Twilio delivers for the first
\* time, its text one of bodies, while the table holds fewer than maxRows
\* inbound rows
Incoming(bodies, maxRows) ==
    /\ Cardinality(InboundRows(messages)) < maxRows
    /\ \E from_number \in Phones, body \in bodies, gw \in BOOLEAN :
       \E id \in FirstConversation(Database, from_number) :
          LET r == handle_incoming_sms(Database, from_number, body,
                                       FreshSid(messages), gw, id, now)
          IN  /\ from_number = OtherPhone => body = StrangerBody
              /\ Finish(r.db, r.ev)
              /\ lastIn' = [from_number |-> from_number, body |-> body,
                            twilio_sid |-> FreshSid(messages),
                            deliveries |-> 1]
    /\ UNCHANGED <<now, advances, inflight, conc, reminder, notifications>>

IncomingSms == Incoming(Bodies, MaxInbound)

\* POST /webhooks/twilio/sms with the message Twilio delivered last, again
RedeliverSms ==
    /\ lastIn.deliveries >= 1
    /\ \E gw \in BOOLEAN :
       \E id \in FirstConversation(Database, lastIn.from_number) :
          LET r == handle_incoming_sms(Database, lastIn.from_number,
                                       lastIn.body, lastIn.twilio_sid, gw, id,
                                       now)
          IN  Finish(r.db, [r.ev EXCEPT !.op = "redelivery"])
    /\ lastIn' = [lastIn EXCEPT !.deliveries = 2]
    /\ UNCHANGED <<now, advances, inflight, conc, reminder, notifications>>

(***************************************************************************)
(* The dialogue: follow-ups are sent and the technician answers; the clock *)
(* stands still                                                            *)
(***************************************************************************)
\* the gateway accepts the follow-up of the one synced contact, so that one
\* conversation exists
DialogueFollowUps == FollowUps(MaxConvs, FALSE)

NextDialogue ==
    \/ DialogueFollowUps
    \/ IncomingSms
    \/ RedeliverSms

SpecDialogue == Init /\ [][NextDialogue]_vars

(***************************************************************************)
(* The timers: the clock advances and the retry / persistence tick runs    *)
(* while the technician answers the confirmation question                  *)
(***************************************************************************)
\* the inbound rows that may exist while the timers run
MaxTimerInbound == 2

TimerBodies == {<<"Y","e","s">>, <<"n","o">>, <<"1">>}

TimerIncomingSms == Incoming(TimerBodies, MaxTimerInbound)

NextTimers ==
    \/ AdvanceTime
    \/ DialogueFollowUps
    \/ SchedulerTick
    \/ TimerIncomingSms

SpecTimers == Init /\ [][NextTimers]_vars

(***************************************************************************)
(* The intake: follow-ups are started by the scheduled job and by the test *)
(* endpoint                                                                *)
(***************************************************************************)
NextIntake ==
    \/ ScheduledFollowUps
    \/ TestSendFollowup
    \/ TimerIncomingSms

SpecIntake == Init /\ [][NextIntake]_vars

(***************************************************************************)
(* The happy path: the technician answers every question of one dialogue   *)
(* as asked, while the gateway may refuse a message and Twilio may repeat  *)
(* a delivery                                                              *)
(***************************************************************************)
\* YES, appointment set, project type 2, Residential, subtype 1, insurance
\* YES, the insurance company, referral 1
HappyPath ==
    << <<"Y","E","S">>,
       <<"a","p","p","o","i","n","t","m","e","n","t"," ","s","e","t">>,
       <<"2">>,
       <<"R","e","s","i","d","e","n","t","i","a","l">>,
       <<"1">>,
       <<"Y","E","S">>,
       <<"S","t","a","t","e"," ","F","a","r","m">>,
       <<"1">> >>

\* the next reply of the happy path
HappyReply ==
    /\ Incoming({HappyPath[Cardinality(InboundRows(messages)) + 1]},
                Len(HappyPath))
    /\ lastIn'.from_number = TechPhone

NextHappy ==
    \/ DialogueFollowUps
    \/ HappyReply
    \/ RedeliverSms

SpecHappy == Init /\ [][NextHappy]_vars

(***************************************************************************)
(* Replies that carry an option digit, a keyword, or both                  *)
(***************************************************************************)
\* the inbound rows that may exist while options are chosen
MaxParseInbound == 3

ParseBodies ==
    {<<"Y","e","s">>,
     <<"1">>,
     <<"2"," ","s","e","t">>,
     <<"2"," ","s","e","w","a","g","e">>,
     <<"M","o","l","d">>}

ParseIncomingSms ==
    /\ Incoming(ParseBodies, MaxParseInbound)
    /\ lastIn'.from_number = TechPhone

NextParse ==
    \/ DialogueFollowUps
    \/ ParseIncomingSms
    \/ RedeliverSms

SpecParse == Init /\ [][NextParse]_vars

(***************************************************************************)
(* NotificationEngine: the reminders of the tasks, sent to every staff     *)
(* phone number                                                            *)
(***************************************************************************)
\* number of times the clock advances between notification runs
MaxNotifyAdvances == 4

\* 24 hours, in steps of ten minutes
Day == 144

reminder_hours_before_due == 144

max_reminders_per_task == 5

\* the due dates of the incomplete tasks
Tasks == <<Day, 2 * Day>>

\* settings.staff_phone_numbers, split
staff_phone_numbers == <<"staff1", "staff2">>

\* a Notification row
NewNotification(task_id, phone_number, t, notification_type) ==
    [task_id |-> task_id, recipient_phone |-> phone_number, sent_at |-> t,
     notification_type |-> notification_type]

NotificationsOf(rows, task_id) ==
    {i \in 1..Len(rows) : rows[i].task_id = task_id}

_should_send_reminder(rows, task_id, t) ==
    LET notification_count == Cardinality(NotificationsOf(rows, task_id))
        time_until_due == Tasks[task_id] - t
    IN  IF notification_count >= max_reminders_per_task THEN FALSE
        ELSE IF /\ notification_count = 0
                /\ time_until_due <= reminder_hours_before_due
                /\ time_until_due > 0
        THEN TRUE
        ELSE IF time_until_due < 0
        THEN IF NotificationsOf(rows, task_id) # {}
             THEN \E i \in NotificationsOf(rows, task_id) :
                     /\ \A j \in NotificationsOf(rows, task_id) :
                           rows[j].sent_at <= rows[i].sent_at
                     /\ t - rows[i].sent_at >= Day
             ELSE TRUE
        ELSE FALSE

\* message_sid is None when the gateway refuses the message
_send_task_notification(rows, task_id, phone_number, message_sid, t) ==
    IF message_sid # None
    THEN Append(rows, NewNotification(task_id, phone_number, t,
                    IF Tasks[task_id] < t THEN "overdue" ELSE "reminder"))
    ELSE rows

\* the loop over staff_phone_numbers for one task, from the p-th number on;
\* ok holds the pairs of task and number whose message the gateway accepts
RECURSIVE NotifyPhones(_, _, _, _, _)
NotifyPhones(rows, task_id, p, ok, t) ==
    IF p > Len(staff_phone_numbers) THEN rows
    ELSE NotifyPhones(
             _send_task_notification(rows, task_id, staff_phone_numbers[p],
                 IF <<task_id, p>> \in ok THEN "sid" ELSE None, t),
             task_id, p + 1, ok, t)

\* the loop of process_task_notifications over the tasks, from task_id on
RECURSIVE NotifyTasks(_, _, _, _)
NotifyTasks(rows, task_id, ok, t) ==
    IF task_id > Len(Tasks) THEN rows
    ELSE NotifyTasks(IF _should_send_reminder(rows, task_id, t)
                     THEN NotifyPhones(rows, task_id, 1, ok, t)
                     ELSE rows,
                     task_id + 1, ok, t)

process_task_notifications(rows, ok, t) == NotifyTasks(rows, 1, ok, t)

\* the messages a run at t passes to the gateway
NotifyAttempts(rows, t) ==
    {tp \in (1..Len(Tasks)) \X (1..Len(staff_phone_numbers)) :
        _should_send_reminder(rows, tp[1], t)}

\* scheduled_task_sync, when a reminder is due
ScheduledTaskSync ==
    /\ NotifyAttempts(notifications, now) # {}
    /\ \E ok \in SUBSET NotifyAttempts(notifications, now) :
          LET refused == Cardinality(NotifyAttempts(notifications, now) \ ok)
          IN  /\ failures + refused <= MaxGatewayFailures
              /\ failures' = failures + refused
              /\ notifications' = process_task_notifications(notifications,
                                                             ok, now)
    /\ ev' = NoEvent("task_sync")
    /\ lastIn' = NoDelivery
    /\ UNCHANGED <<contacts, conversations, messages, now, advances,
                   inflight, conc, reminder>>

\* the clock moves on by half a day or by a day
NotifyAdvanceTime ==
    /\ advances < MaxNotifyAdvances
    /\ \E d \in {Day \div 2, Day} : now' = now + d
    /\ advances' = advances + 1
    /\ ev' = NoEvent("advance_time")
    /\ lastIn' = NoDelivery
    /\ UNCHANGED <<contacts, conversations, messages, failures, inflight,
                   conc, reminder, notifications>>

NextNotify ==
    \/ NotifyAdvanceTime
    \/ ScheduledTaskSync

SpecNotify == Init /\ [][NextNotify]_vars

(***************************************************************************)
(* Two leads of the one technician, synced together: the clock advances,   *)
(* the tick runs and the technician answers what is asked                  *)
(***************************************************************************)
\* the inbound rows that may exist with two leads
MaxMultiInbound == 3

\* number of times the clock advances with two leads
MaxMultiAdvances == 1

MultiBodies == {<<"Y","e","s">>, <<"n","o">>, <<"3">>}

InitMulti ==
    /\ contacts = <<NewContact("lead1", "follow_up_scheduled", 0),
                    NewContact("lead2", "follow_up_scheduled", 0)>>
    /\ conversations = <<>>
    /\ messages = <<>>
    /\ now = 0
    /\ advances = 0
    /\ failures = 0
    /\ lastIn = NoDelivery
    /\ ev = NoEvent("start")
    /\ inflight = <<>>
    /\ conc = NoRound
    /\ reminder = NoReminder
    /\ notifications = <<>>

\* the technician's replies that the state of the conversation recognizes,
\* while the gateway accepts the handler's messages
MultiIncomingSms ==
    /\ Incoming(MultiBodies, MaxMultiInbound)
    /\ lastIn'.from_number = TechPhone
    /\ ev'.intent # "unrecognized"
    /\ Refused(ev'.sends) = 0

\* the job runs when a follow-up is due
MultiFollowUps ==
    /\ ContactsDue(Database, now) # {}
    /\ FollowUps(MaxConvs, FALSE)

\* the tick runs when a retry or a persistence message is due
MultiTick ==
    /\ \/ RetryContacts(Database, now) # {}
       \/ PersistenceConversations(Database, now) # {}
    /\ SchedulerTick

MultiAdvanceTime ==
    /\ advances < MaxMultiAdvances
    /\ AdvanceTime

NextMulti ==
    \/ MultiAdvanceTime
    \/ MultiFollowUps
    \/ MultiTick
    \/ MultiIncomingSms

SpecMulti == InitMulti /\ [][NextMulti]_vars

(***************************************************************************)
(* The YES and NO keywords as replies, in lower and in upper case, to the   *)
(* two questions that are answered with YES or NO                          *)
(***************************************************************************)
\* the inbound rows that may exist while the keywords are tried
MaxYesNoInbound == 5

UpperChar(c) ==
    IF \E i \in 1..Len(LowerCase) : LowerCase[i] = c
    THEN UpperCase[CHOOSE i \in 1..Len(LowerCase) : LowerCase[i] = c]
    ELSE c

\* str.upper()
upper(s) == [i \in 1..Len(s) |-> UpperChar(s[i])]

YesNoBodies ==
    yes_patterns \cup no_patterns
        \cup {upper(w) : w \in yes_patterns \cup no_patterns}

\* the technician answers the two YES/NO questions with a keyword, the
\* outcome and the project type with 1 and the property type with 2
YesNoIncomingSms ==
    /\ ActiveConversations(Database, TechPhone) # {}
    /\ LET k == Min(FirstConversation(Database, TechPhone))
       IN  Incoming(IF conversations[k].state \in {AWAITING_CONTACT_CONFIRMATION,
                                                   AWAITING_INSURANCE}
                    THEN YesNoBodies
                    ELSE IF conversations[k].state = AWAITING_PROPERTY_TYPE
                    THEN {<<"2">>}
                    ELSE {<<"1">>},
                    MaxYesNoInbound)
    /\ lastIn'.from_number = TechPhone
    /\ Refused(ev'.sends) = 0

NextYesNo ==
    \/ DialogueFollowUps
    \/ YesNoIncomingSms

SpecYesNo == Init /\ [][NextYesNo]_vars

(***************************************************************************)
(* The outcome question answered with each option, by digit and by keyword *)
(***************************************************************************)
\* the inbound rows that may exist while outcomes are reported
MaxOutcomeInbound == 3

OutcomeBodies ==
    {<<"Y","e","s">>, <<"1">>, <<"2">>, <<"3">>, <<"4">>,
     <<"A","p","p","t">>, <<"Q","u","o","t","e","s">>, <<"W","a","s","t","e">>,
     <<"O","t","h","e","r">>}

OutcomeIncomingSms ==
    /\ Incoming(OutcomeBodies, MaxOutcomeInbound)
    /\ lastIn'.from_number = TechPhone

NextOutcome ==
    \/ AdvanceTime
    \/ DialogueFollowUps
    \/ OutcomeIncomingSms

SpecOutcome == Init /\ [][NextOutcome]_vars

(***************************************************************************)
(* The insurance company question answered with a name, with blanks and    *)
(* with nothing                                                            *)
(***************************************************************************)
\* the inbound rows that may exist while the company is asked for
MaxCompanyInbound == 7

CompanyBodies ==
    {<<" ","S","t","a","t","e"," ","F","a","r","m"," ">>,
     <<"G","e","i","c","o">>, <<" "," ">>, <<>>}

\* the technician answers the questions before and after the insurance
\* company as asked, for a commercial property with insurance
CompanyIncomingSms ==
    /\ ActiveConversations(Database, TechPhone) # {}
    /\ LET state == conversations[Min(FirstConversation(Database,
                                                        TechPhone))].state
       IN  Incoming(IF state = AWAITING_INSURANCE_COMPANY THEN CompanyBodies
                    ELSE IF state \in {AWAITING_CONTACT_CONFIRMATION,
                                       AWAITING_INSURANCE}
                    THEN {<<"Y","e","s">>}
                    ELSE IF state = AWAITING_PROPERTY_TYPE THEN {<<"2">>}
                    ELSE {<<"1">>},
                    MaxCompanyInbound)
    /\ lastIn'.from_number = TechPhone

NextCompany ==
    \/ AdvanceTime
    \/ DialogueFollowUps
    \/ CompanyIncomingSms
    \/ RedeliverSms

SpecCompany == Init /\ [][NextCompany]_vars

(***************************************************************************)
(* The project type question answered with digits, with the words of the   *)
(* prompt and with their short forms                                       *)
(***************************************************************************)
\* the inbound rows that may exist while the project type is asked for
MaxProjectInbound == 4

ProjectBodies ==
    {<<"3">>, <<"7">>, <<"M","o","l","d">>, <<"R","e","c","o","n">>,
     <<"B","i","o">>, <<"C","o","n","t","e","n","t">>,
     <<"w","a","t","e","r">>}

\* the technician confirms the contact, reports an appointment and answers
\* the project type question
ProjectIncomingSms ==
    /\ ActiveConversations(Database, TechPhone) # {}
    /\ LET state == conversations[Min(FirstConversation(Database,
                                                        TechPhone))].state
       IN  Incoming(IF state = AWAITING_PROJECT_TYPE THEN ProjectBodies
                    ELSE IF state = AWAITING_CONTACT_CONFIRMATION
                    THEN {<<"Y","e","s">>}
                    ELSE {<<"1">>},
                    MaxProjectInbound)
    /\ lastIn'.from_number = TechPhone

NextProject ==
    \/ AdvanceTime
    \/ DialogueFollowUps
    \/ ProjectIncomingSms
    \/ RedeliverSms

SpecProject == Init /\ [][NextProject]_vars

(***************************************************************************)
(* Two leads of the one technician whose follow-ups fall due two hours     *)
(* apart, so that the conversations carry different stamps                 *)
(***************************************************************************)
\* the inbound rows that may exist with the two staggered leads
MaxSharedInbound == 2

\* number of times the clock advances with the two staggered leads
MaxSharedAdvances == 2

SharedBodies == {<<"Y","e","s">>, <<"n","o">>, <<"1">>}

InitShared ==
    /\ contacts = <<NewContact("lead1", "follow_up_scheduled", 0),
                    NewContact("lead2", "follow_up_scheduled", TwoHours)>>
    /\ conversations = <<>>
    /\ messages = <<>>
    /\ now = 0
    /\ advances = 0
    /\ failures = 0
    /\ lastIn = NoDelivery
    /\ ev = NoEvent("start")
    /\ inflight = <<>>
    /\ conc = NoRound
    /\ reminder = NoReminder
    /\ notifications = <<>>

\* the technician's replies, while the gateway accepts the handler's messages
SharedIncomingSms ==
    /\ Incoming(SharedBodies, MaxSharedInbound)
    /\ lastIn'.from_number = TechPhone
    /\ Refused(ev'.sends) = 0

\* the job runs when a follow-up is due
SharedFollowUps ==
    /\ ContactsDue(Database, now) # {}
    /\ FollowUps(MaxConvs, FALSE)

\* the tick runs when a retry or a persistence message is due, while the
\* gateway accepts its messages
SharedTick ==
    /\ \/ RetryContacts(Database, now) # {}
       \/ PersistenceConversations(Database, now) # {}
    /\ SchedulerTick
    /\ Refused(ev'.sends) = 0

SharedAdvanceTime ==
    /\ advances < MaxSharedAdvances
    /\ AdvanceTime

NextShared ==
    \/ SharedAdvanceTime
    \/ SharedFollowUps
    \/ SharedTick
    \/ SharedIncomingSms

SpecShared == InitShared /\ [][NextShared]_vars

(***************************************************************************)
(* The project creation job beside one qualification dialogue              *)
(***************************************************************************)
\* the inbound rows that may exist beside the project creation job
MaxCreationInbound == 8

\* the contacts process_pending_projects selects
PendingProjects(db) ==
    {c \in 1..Len(db.contacts) :
        /\ db.contacts[c].project_creation_needed
        /\ ~db.contacts[c].project_created}

\* the loop of process_pending_projects over the contacts todo with
\* create_project_for_contact inlined; ok holds the contacts for which the
\* browser session ends with a project id
RECURSIVE CreationLoop(_, _, _, _)
CreationLoop(db, todo, ok, attempts) ==
    IF todo = {} THEN [db |-> db, sends |-> attempts]
    ELSE
    LET c == Min(todo)
        a == Send("albiware", "create_project", 0, c, c \in ok)
    IN  CreationLoop(IF a.ok
                     THEN [db EXCEPT !.contacts[c].project_created = TRUE]
                     ELSE db,
                     todo \ {c}, ok, Append(attempts, a))

process_pending_projects(db, ok) ==
    CreationLoop(db, PendingProjects(db), ok, <<>>)

\* scheduled_project_creation, when a contact is pending
ScheduledProjectCreation ==
    /\ PendingProjects(Database) # {}
    /\ \E ok \in SUBSET PendingProjects(Database) :
          LET r == process_pending_projects(Database, ok)
          IN  /\ contacts' = r.db.contacts
              /\ ev' = Event("project_creation", 0, None, None, r.sends,
                             TRUE)
    /\ lastIn' = NoDelivery
    /\ UNCHANGED <<conversations, messages, now, advances, failures,
                   inflight, conc, reminder, notifications>>

\* the technician answers every question with a reply its state recognizes
CreationIncomingSms ==
    /\ ActiveConversations(Database, TechPhone) # {}
    /\ LET state == conversations[Min(FirstConversation(Database,
                                                        TechPhone))].state
       IN  Incoming(IF state \in {AWAITING_CONTACT_CONFIRMATION,
                                  AWAITING_INSURANCE}
                    THEN {<<"Y","e","s">>, <<"n","o">>}
                    ELSE IF state = AWAITING_INSURANCE_COMPANY
                    THEN {<<"G","e","i","c","o">>}
                    ELSE {<<"1">>, <<"2">>},
                    MaxCreationInbound)
    /\ lastIn'.from_number = TechPhone
    /\ Refused(ev'.sends) = 0

NextCreation ==
    \/ DialogueFollowUps
    \/ CreationIncomingSms
    \/ ScheduledProjectCreation

SpecCreation == Init /\ [][NextCreation]_vars

(***************************************************************************)
(* The referral question answered with digits and with the labels of the   *)
(* prompt                                                                  *)
(***************************************************************************)
\* the inbound rows that may exist while the referral source is asked for
MaxReferralInbound == 6

\* the options of the referral prompt as the message shows them
referral_labels ==
    [k \in {<<"1">>, <<"2">>, <<"3">>, <<"4">>, <<"5">>, <<"6">>} |->
        CASE k = <<"1">> -> <<"C","u","s","t","o","m","e","r"," ","R","e","f","e","r","r","a","l">>
          [] k = <<"2">> -> <<"I","n","d","u","s","t","r","y"," ","P","a","r","t","n","e","r">>
          [] k = <<"3">> -> <<"I","n","s","u","r","a","n","c","e"," ","R","e","f","e","r","r","a","l">>
          [] k = <<"4">> -> <<"L","e","a","d"," ","G","e","n">>
          [] k = <<"5">> -> <<"O","n","l","i","n","e"," ","M","a","r","k","e","t","i","n","g">>
          [] k = <<"6">> -> <<"P","l","u","m","b","e","r">>]

\* the labels as shown, two of them in other letter cases, and two digits
ReferralBodies ==
    {referral_labels[k] : k \in DOMAIN referral_labels}
        \cup {<<"I","N","S","U","R","A","N","C","E"," ","R","E","F","E","R","R","A","L">>, <<"l","e","a","d"," ","g","e","n">>, <<"3">>, <<"5">>}

\* the technician reaches the referral question of a commercial property
\* without insurance and answers it
ReferralIncomingSms ==
    /\ ActiveConversations(Database, TechPhone) # {}
    /\ LET state == conversations[Min(FirstConversation(Database,
                                                        TechPhone))].state
       IN  Incoming(IF state = AWAITING_REFERRAL_SOURCE THEN ReferralBodies
                    ELSE IF state = AWAITING_CONTACT_CONFIRMATION
                    THEN {<<"Y","e","s">>}
                    ELSE IF state = AWAITING_INSURANCE THEN {<<"n","o">>}
                    ELSE IF state = AWAITING_PROPERTY_TYPE THEN {<<"2">>}
                    ELSE {<<"1">>},
                    MaxReferralInbound)
    /\ lastIn'.from_number = TechPhone

NextReferral ==
    \/ DialogueFollowUps
    \/ ReferralIncomingSms
    \/ RedeliverSms

SpecReferral == Init /\ [][NextReferral]_vars

(***************************************************************************)
(* One whole qualification: in every state the technician sends replies    *)
(* the state recognizes and one it does not                                *)
(***************************************************************************)
\* the inbound rows that may exist during one whole qualification
MaxQualifyInbound == 9

QualifyBodies(state) ==
    {<<"?">>} \cup
    (IF state = AWAITING_CONTACT_CONFIRMATION
     THEN {<<"Y","e","s">>, <<"n","o">>}
     ELSE IF state = AWAITING_INSURANCE
     THEN {<<"Y","e","s">>, <<"n","o">>}
     ELSE IF state = AWAITING_INSURANCE_COMPANY
     THEN {<<"G","e","i","c","o">>}
     ELSE IF state = AWAITING_PROJECT_TYPE
     THEN {<<"1">>, <<"M","o","l","d">>}
     ELSE {<<"1">>, <<"2">>})

QualifyIncomingSms ==
    /\ ActiveConversations(Database, TechPhone) # {}
    /\ Incoming(QualifyBodies(
                   conversations[Min(FirstConversation(Database,
                                                       TechPhone))].state),
                MaxQualifyInbound)
    /\ lastIn'.from_number = TechPhone
    /\ Refused(ev'.sends) = 0

NextQualify ==
    \/ DialogueFollowUps
    \/ QualifyIncomingSms
    \/ RedeliverSms

SpecQualify == Init /\ [][NextQualify]_vars

(***************************************************************************)
(* Task reminders: the due date of a task is written into the text of the  *)
(* reminder                                                                *)
(***************************************************************************)
DigitChars == <<"0","1","2","3","4","5","6","7","8","9">>

\* the decimal digits of n, padded with zeros to width characters
RECURSIVE ZeroPadded(_, _)
ZeroPadded(n, width) ==
    IF width = 0 THEN <<>>
    ELSE Append(ZeroPadded(n \div 10, width - 1), DigitChars[(n % 10) + 1])

\* due_date.strftime("%m/%d/%Y %I:%M %p")
strftime(d) ==
    LET hour12 == IF d.hour % 12 = 0 THEN 12 ELSE d.hour % 12
    IN  ZeroPadded(d.month, 2) \o <<"/">> \o ZeroPadded(d.day, 2) \o <<"/">>
            \o ZeroPadded(d.year, 4) \o <<" ">> \o ZeroPadded(hour12, 2)
            \o <<":">> \o ZeroPadded(d.minute, 2) \o <<" ">>
            \o (IF d.hour < 12 THEN <<"A","M">> ELSE <<"P","M">>)

\* str.replace(old, new): every occurrence, from the left, without overlap
RECURSIVE str_replace(_, _, _)
str_replace(s, old, new) ==
    IF Len(s) < Len(old) THEN s
    ELSE IF SubSeq(s, 1, Len(old)) = old
         THEN new \o str_replace(SubSeq(s, Len(old) + 1, Len(s)), old, new)
         ELSE <<Head(s)>> \o str_replace(Tail(s), old, new)

\* formatted_date of send_task_reminder
formatted_date(due_date) ==
    lower(str_replace(strftime(due_date), <<" ","0">>, <<" ">>))

\* the due dates of the tasks reminded of
DueDates ==
    [year : {2026}, month : {2, 10}, day : {15}, hour : 0..23,
     minute : {5, 30}]

\* send_task_reminder for a task that is due at due_date; gw is whether the
\* gateway takes the message
SendTaskReminder ==
    /\ \E due_date \in DueDates, gw \in BOOLEAN :
          reminder' = [due_date |-> due_date,
                       body |-> formatted_date(due_date),
                       sid |-> IF gw THEN "sid" ELSE None]
    /\ UNCHANGED <<contacts, conversations, messages, now, advances, failures,
                   lastIn, ev, inflight, conc, notifications>>

NextReminder == SendTaskReminder

SpecReminder == Init /\ [][NextReminder]_vars

(***************************************************************************)
(* The webhook handler and the scheduler's tick in flight together: the    *)
(* handler runs on the server's thread and the tick on the scheduler's,    *)
(* each with a session of its own and no lock, version or SELECT FOR       *)
(* UPDATE.  An operation reads its rows when it begins and writes, when it *)
(* commits, the columns it changed; a round is the operations that began   *)
(* from the same committed rows.                                           *)
(***************************************************************************)
MaxConcInbound == 2

ConcBodies == {<<"Y","e","s">>, <<"n","o">>}

RoundIdle == conc.done = 1..Len(inflight)

RoundOps == IF RoundIdle THEN <<>> ELSE inflight

\* the gateway refusals the operations in flight will meet
Pending(ops) == Cardinality({i \in 1..Len(ops) : ~ops[i].gw})

\* the largest MessageSid among the inbound rows
MaxSid(msgs) ==
    IF InboundRows(msgs) = {} THEN 0
    ELSE CHOOSE n \in {msgs[k].twilio_sid : k \in InboundRows(msgs)} :
            \A k \in InboundRows(msgs) : msgs[k].twilio_sid <= n

\* what an operation does with the rows it has read
Apply(db, o, t) ==
    IF o.op = "inbound"
    THEN handle_incoming_sms(db, o.from_number, o.body, o.twilio_sid, o.gw,
                             Min(FirstConversation(db, o.from_number)), t)
    ELSE LET r == process_retries_and_persistence(
                      db,
                      IF o.gw THEN RetryContacts(db, t) ELSE {},
                      IF o.gw THEN PersistenceConversations(db, t) ELSE {},
                      t)
         IN  [db |-> r.db,
              ev |-> Event("tick", 0, None, None, r.sends, r.db # db)]

\* the unit of work's UPDATE: the columns whose value differs from the value
\* loaded are written, the others keep what is committed
MergeRows(cur, snap, new) ==
    [i \in 1..Len(cur) |->
        [f \in DOMAIN cur[i] |->
            IF new[i][f] # snap[i][f] THEN new[i][f] ELSE cur[i][f]]]

\* the rows added are inserted after the committed ones; the gateway's ids
\* of outbound rows are unique
MergeMessages(cur, snap, new) ==
    cur \o [k \in 1..(Len(new) - Len(snap)) |->
               LET m == new[Len(snap) + k]
               IN  IF m.direction = "outbound"
                   THEN [m EXCEPT !.twilio_sid = 0 - (Len(cur) + k)]
                   ELSE m]

Merge(cur, snap, new) ==
    [contacts |-> MergeRows(cur.contacts, snap.contacts, new.contacts),
     conversations |-> MergeRows(cur.conversations, snap.conversations,
                                 new.conversations),
     messages |-> MergeMessages(cur.messages, snap.messages, new.messages)]

\* an operation begins: it reads the committed rows
Begin(o) ==
    /\ Len(RoundOps) < 2
    /\ conc.done = {} \/ RoundIdle
    /\ \A i \in 1..Len(RoundOps) : RoundOps[i].op # o.op
    /\ failures + Pending(RoundOps) + Pending(<<o>>) <= MaxGatewayFailures
    /\ inflight' = Append(RoundOps, o)
    /\ conc' = IF RoundIdle
               THEN [base |-> Database, done |-> {}]
               ELSE conc
    /\ ev' = NoEvent("begin")
    /\ lastIn' = NoDelivery
    /\ UNCHANGED <<contacts, conversations, messages, now, advances, failures,
                   reminder, notifications>>

\* the webhook is called for a reply of the technician
BeginInbound ==
    /\ Cardinality(InboundRows(messages)) < MaxConcInbound
    /\ ActiveConversations(Database, TechPhone) # {}
    /\ \E body \in ConcBodies, gw \in BOOLEAN :
          Begin([op |-> "inbound", from_number |-> TechPhone, body |-> body,
                 twilio_sid |-> MaxSid(messages) + Len(RoundOps) + 1,
                 gw |-> gw])

\* the tick starts with no retry due and a conversation silent for ten
\* minutes
BeginTick ==
    /\ RetryContacts(Database, now) = {}
    /\ PersistenceConversations(Database, now) # {}
    /\ \E gw \in BOOLEAN :
          Begin([op |-> "tick", from_number |-> None, body |-> <<>>,
                 twilio_sid |-> 0, gw |-> gw])

\* an operation in flight commits
CommitOp ==
    \E i \in 1..Len(inflight) :
        /\ i \notin conc.done
        /\ LET r == Apply(conc.base, inflight[i], now)
           IN  Finish(IF r.ev.committed THEN Merge(Database, conc.base, r.db)
                      ELSE Database, r.ev)
        /\ conc' = [conc EXCEPT !.done = @ \cup {i}]
        /\ lastIn' = NoDelivery
        /\ UNCHANGED <<now, advances, inflight, reminder, notifications>>

ConcFollowUps == RoundIdle /\ FollowUps(MaxConvs, FALSE)

ConcAdvanceTime == RoundIdle /\ AdvanceTime

NextConc ==
    \/ ConcFollowUps
    \/ ConcAdvanceTime
    \/ BeginInbound
    \/ BeginTick
    \/ CommitOp

SpecConc == Init /\ [][NextConc]_vars

\* the rows a serial execution of the round's operations leaves
SerialOutcomes ==
    IF Len(inflight) = 1
    THEN {Apply(conc.base, inflight[1], now).db}
    ELSE {Apply(Apply(conc.base, inflight[i], now).db, inflight[j], now).db :
            <<i, j>> \in {<<1, 2>>, <<2, 1>>}}

(***************************************************************************)
(* Properties                                                              *)
(***************************************************************************)
\* the last operation was a webhook delivery that reached a handler
Handled_(e) ==
    /\ e.op \in {"inbound", "redelivery"}
    /\ e.conversation_id # 0
    /\ e.intent \notin {"integrity_error", "unknown_state"}

\* the contact of the conversation the last operation worked on
EventContact == contacts[conversations[ev.conversation_id].contact_id]

\* the persistence messages the last operation passed to the gateway
PersistenceSends(e) ==
    {i \in 1..Len(e.sends) :
        e.sends[i].kind \in {"persistence_activated", "persistence_reminder"}}

\* the prompt that asks again in a state
RepromptOf(state) ==
    CASE state = AWAITING_CONTACT_CONFIRMATION -> "confirmation_reprompt"
      [] state = AWAITING_OUTCOME -> "outcome_reprompt"
      [] state = AWAITING_PROJECT_TYPE -> "project_type_reprompt"
      [] state = AWAITING_PROPERTY_TYPE -> "property_type_reprompt"
      [] state = AWAITING_RESIDENTIAL_SUBTYPE -> "residential_subtype_reprompt"
      [] state = AWAITING_INSURANCE -> "insurance_reprompt"
      [] state = AWAITING_REFERRAL_SOURCE -> "referral_source_reprompt"
      [] OTHER -> None

\* C1: the persistence tick never sends a persistence message for a contact
\* whose last_retry_at is set, and no contact of a conversation that awaits
\* the confirmation has persistence_mode set together with last_retry_at.
C1_MutualExclusion ==
    /\ ev.op = "tick" =>
          \A i \in PersistenceSends(ev) :
              contacts[ev.sends[i].contact_id].last_retry_at = NoTime
    /\ \A k \in 1..Len(conversations) :
          conversations[k].state = AWAITING_CONTACT_CONFIRMATION =>
              ~(/\ contacts[conversations[k].contact_id].persistence_mode
                /\ contacts[conversations[k].contact_id].last_retry_at # NoTime)

\* C2: a reply that the handler of the conversation's state does not
\* recognize leaves every conversation and contact as it was, and the handler
\* passes exactly one message to the gateway, the re-prompt of that state.
C2_UnrecognizedReprompts ==
    [][(Handled_(ev') /\ ev'.intent = "unrecognized") =>
          /\ conversations' = conversations
          /\ contacts' = contacts
          /\ Len(ev'.sends) = 1
          /\ ev'.sends[1].kind = RepromptOf(ev'.pre_state)
          /\ ev'.sends[1].to = conversations[ev'.conversation_id].technician_phone
      ]_vars

\* C2 happens: an unrecognized reply was re-prompted in the last state of the
\* dialogue, and the gateway accepted the re-prompt.
C2_Witness ==
    /\ Handled_(ev)
    /\ ev.intent = "unrecognized"
    /\ ev.pre_state = AWAITING_REFERRAL_SOURCE
    /\ ev.sends[1].ok

\* C3: a webhook delivered again with the same MessageSid is not processed
\* again (nothing is sent, nothing is committed) and the messages table
\* holds no more than one inbound row with that MessageSid.
C3_IdempotentRedelivery ==
    (ev.op = "redelivery" /\ ev.conversation_id # 0) =>
        /\ ev.sends = <<>>
        /\ ~ev.committed
        /\ Cardinality({k \in InboundRows(messages) :
                          messages[k].twilio_sid = lastIn.twilio_sid}) <= 1

\* C4: when the gateway refuses the prompt of a recognized reply, the
\* conversations and the contacts are left exactly as they were.
C4_FailedSendLeavesState ==
    [][(/\ Handled_(ev')
        /\ ev'.intent # "unrecognized"
        /\ ~ev'.sends[1].ok) =>
          /\ conversations' = conversations
          /\ contacts' = contacts
      ]_vars

\* C5: each contact has at most one conversation whose state is not
\* COMPLETED.
C5_OneOpenConversation ==
    \A j, k \in 1..Len(conversations) :
        (/\ conversations[j].contact_id = conversations[k].contact_id
         /\ conversations[j].state # COMPLETED
         /\ conversations[k].state # COMPLETED) => j = k

\* C6: after a YES or a NO was processed in AWAITING_CONTACT_CONFIRMATION the
\* contact's persistence_mode is false, and no tick sends a persistence
\* message for a contact that has answered NO.
C6_PersistenceCleared ==
    /\ (/\ Handled_(ev)
        /\ ev.pre_state = AWAITING_CONTACT_CONFIRMATION
        /\ ev.intent \in {"YES", "NO"}) => ~EventContact.persistence_mode
    /\ ev.op = "tick" =>
          \A i \in PersistenceSends(ev) :
              contacts[ev.sends[i].contact_id].retry_count = 0

\* C7: after a delivery that was matched to a conversation, the messages
\* table holds an inbound row with the delivery's MessageSid for that
\* conversation.
C7_InboundLogged ==
    (ev.op \in {"inbound", "redelivery"} /\ ev.conversation_id # 0) =>
        \E k \in InboundRows(messages) :
            /\ messages[k].twilio_sid = lastIn.twilio_sid
            /\ messages[k].conversation_id = ev.conversation_id

\* C8: when the webhook handler and the tick have both committed after
\* running together on the same conversation, the contacts and the
\* conversations are those that one of the two serial orders leaves.
C8_Serializable ==
    (Len(inflight) = 2 /\ conc.done = {1, 2}) =>
        \E s \in SerialOutcomes :
            /\ s.contacts = contacts
            /\ s.conversations = conversations

\* C9: after a reply read as YES in AWAITING_CONTACT_CONFIRMATION the
\* conversation is AWAITING_OUTCOME with contact_confirmed set, the contact's
\* status is CONTACT_MADE and its persistence_mode is false.
C9_YesConfirms ==
    (/\ Handled_(ev)
     /\ ev.pre_state = AWAITING_CONTACT_CONFIRMATION
     /\ ev.intent = "YES") =>
        /\ conversations[ev.conversation_id].state = AWAITING_OUTCOME
        /\ conversations[ev.conversation_id].contact_confirmed
        /\ EventContact.status = "contact_made"
        /\ ~EventContact.persistence_mode

\* C9 happens: a YES arrived after persistence messages had been sent.
C9_Witness ==
    /\ Handled_(ev)
    /\ ev.pre_state = AWAITING_CONTACT_CONFIRMATION
    /\ ev.intent = "YES"
    /\ EventContact.persistence_count > 0

\* C10: a reply read as NO in AWAITING_CONTACT_CONFIRMATION adds exactly one
\* to the contact's retry_count, sets last_retry_at to the current time and
\* leaves the conversation in AWAITING_CONTACT_CONFIRMATION with completed_at
\* unset.
C10_NoCountsRetry ==
    [][(/\ Handled_(ev')
        /\ ev'.pre_state = AWAITING_CONTACT_CONFIRMATION
        /\ ev'.intent = "NO") =>
          LET k == ev'.conversation_id
              c == conversations[k].contact_id
          IN  /\ contacts'[c].retry_count = contacts[c].retry_count + 1
              /\ contacts[c].last_retry_at = NoTime => contacts'[c].retry_count = 1
              /\ contacts'[c].last_retry_at = now
              /\ conversations'[k].state = AWAITING_CONTACT_CONFIRMATION
              /\ conversations'[k].completed_at = NoTime
      ]_vars

\* C10 happens: a second NO was counted.
C10_Witness ==
    /\ Handled_(ev)
    /\ ev.pre_state = AWAITING_CONTACT_CONFIRMATION
    /\ ev.intent = "NO"
    /\ EventContact.retry_count = 2

\* the messages of the kinds that the last operation passed to the gateway
\* for the contact c
SendsFor(e, c, kinds) ==
    {i \in 1..Len(e.sends) :
        e.sends[i].contact_id = c /\ e.sends[i].kind \in kinds}

\* C11: a tick that runs two hours or more after a NO was recorded, while
\* the conversation still awaits the confirmation, sends exactly one retry
\* prompt for the contact and no persistence message.
C11_RetryWithoutPersistence ==
    [][ev'.op = "tick" =>
          \A k \in 1..Len(conversations) :
              LET c == conversations[k].contact_id
              IN  (/\ conversations[k].state = AWAITING_CONTACT_CONFIRMATION
                   /\ contacts[c].last_retry_at # NoTime
                   /\ contacts[c].last_retry_at <= now - TwoHours) =>
                      /\ Cardinality(SendsFor(ev', c, {"retry_prompt"})) = 1
                      /\ SendsFor(ev', c, {"persistence_activated",
                                           "persistence_reminder"}) = {}
      ]_vars

\* the persistence messages of the last operation that the gateway accepted
\* for the contact c
PersistenceSent(e, c) ==
    {i \in SendsFor(e, c, {"persistence_activated", "persistence_reminder"}) :
        e.sends[i].ok}

\* C12: while a conversation awaits the confirmation and no NO is recorded,
\* every tick that runs ten minutes or more after the last message passes
\* exactly one persistence message to the gateway; once it is sent the
\* contact is in persistence mode and last_message_at is the time of the
\* tick; and a tick adds to persistence_count the number of persistence
\* messages it sent for the contact.
C12_PersistenceEveryTenMinutes ==
    [][ev'.op = "tick" =>
          /\ \A k \in 1..Len(conversations) :
                LET c == conversations[k].contact_id
                IN  (/\ conversations[k].state = AWAITING_CONTACT_CONFIRMATION
                     /\ contacts[c].last_retry_at = NoTime
                     /\ conversations[k].last_message_at <= now - TenMinutes) =>
                        /\ Cardinality(SendsFor(ev', c, {"persistence_activated",
                                                         "persistence_reminder"})) = 1
                        /\ PersistenceSent(ev', c) # {} =>
                              /\ contacts'[c].persistence_mode
                              /\ contacts'[c].persistence_count
                                    = contacts[c].persistence_count + 1
                              /\ contacts'[c].last_persistence_at = now
                              /\ conversations'[k].last_message_at = now
          /\ \A c \in 1..Len(contacts) :
                contacts'[c].persistence_count
                    = contacts[c].persistence_count
                        + Cardinality(PersistenceSent(ev', c))
      ]_vars

\* C12 happens: a second persistence message was sent, ten minutes after
\* the first, to a contact with no NO recorded.
C12_Witness ==
    /\ ev.op = "tick"
    /\ PersistenceSent(ev, 1) # {}
    /\ contacts[1].persistence_count = 2
    /\ contacts[1].last_retry_at = NoTime
    /\ contacts[1].persistence_mode

\* the scheduler's messages
TickKinds == {"retry_prompt", "persistence_activated", "persistence_reminder"}

\* C13: a contact whose messages the gateway refused during a tick has the
\* retry_count, last_retry_at, persistence_mode, persistence_count and
\* last_persistence_at it had before the tick, and its conversation the
\* state and last_message_at, whatever the tick did for other contacts.
C13_FailedTickLeavesContact ==
    [][ev'.op = "tick" =>
          \A i \in 1..Len(ev'.sends) :
              LET c == ev'.sends[i].contact_id
                  k == ev'.sends[i].conversation_id
              IN  (\A j \in SendsFor(ev', c, TickKinds) : ~ev'.sends[j].ok) =>
                      /\ contacts'[c].retry_count = contacts[c].retry_count
                      /\ contacts'[c].last_retry_at = contacts[c].last_retry_at
                      /\ contacts'[c].persistence_mode
                            = contacts[c].persistence_mode
                      /\ contacts'[c].persistence_count
                            = contacts[c].persistence_count
                      /\ contacts'[c].last_persistence_at
                            = contacts[c].last_persistence_at
                      /\ conversations'[k].state = conversations[k].state
                      /\ conversations'[k].last_message_at
                            = conversations[k].last_message_at
      ]_vars

\* the messages the replies of the happy path are answered with: seven
\* prompts and the summary
HappyPrompts ==
    <<"outcome_prompt", "project_type_prompt", "property_type_prompt",
      "residential_subtype_prompt", "insurance_prompt",
      "insurance_company_prompt", "referral_source_prompt", "summary">>

\* the kinds of the outbound rows of the conversation k, in order
RECURSIVE OutboundKinds(_, _)
OutboundKinds(msgs, k) ==
    IF msgs = <<>> THEN <<>>
    ELSE IF Head(msgs).direction = "outbound" /\ Head(msgs).conversation_id = k
         THEN <<Head(msgs).kind>> \o OutboundKinds(Tail(msgs), k)
         ELSE OutboundKinds(Tail(msgs), k)

\* C14: on the happy path the n-th reply is answered with exactly one
\* message, the n-th of seven prompts and one summary; after the eighth
\* reply the conversation is COMPLETED and outcome, project_type,
\* property_type, residential_subtype, has_insurance, insurance_company and
\* referral_source hold what was entered; when the gateway refused nothing,
\* the messages logged after the initial prompt are these eight.
C14_HappyPath ==
    LET n == Cardinality(InboundRows(messages))
    IN  /\ (ev.op = "inbound" /\ ev.conversation_id # 0) =>
              /\ Len(ev.sends) = 1
              /\ ev.sends[1].kind = HappyPrompts[n]
        /\ n = Len(HappyPath) =>
              /\ conversations[1].state = COMPLETED
              /\ conversations[1].completed_at # NoTime
              /\ conversations[1].outcome = "appointment_set"
              /\ contacts[1].outcome = "appointment_set"
              /\ contacts[1].project_type = "Mold"
              /\ contacts[1].property_type = "Residential"
              /\ contacts[1].residential_subtype = "Single Family Home"
              /\ contacts[1].has_insurance = "True"
              /\ contacts[1].insurance_company = <<HappyPath[7]>>
              /\ contacts[1].referral_source = "Customer Referral"
              /\ failures = 0 =>
                    OutboundKinds(messages, 1)
                        = <<"initial_prompt">> \o HappyPrompts

\* C14 happens: the eighth reply was answered with the summary and the
\* gateway refused nothing.
C14_Witness ==
    /\ Cardinality(InboundRows(messages)) = Len(HappyPath)
    /\ ev.op = "inbound"
    /\ ev.sends[1].kind = "summary"
    /\ failures = 0
    /\ conversations[1].state = COMPLETED

\* the conversations that are open for a sender
OpenFor(from_number) ==
    {j \in 1..Len(conversations) :
        /\ conversations[j].technician_phone = from_number
        /\ conversations[j].state # COMPLETED}

\* C15: the webhook applies a message to one conversation, one of the
\* sender's that is not COMPLETED and has the greatest last_message_at among
\* those; every other conversation and every other contact is left as it
\* was, the rows it adds belong to that conversation, and it applies the
\* message to none only when the sender has none that is not COMPLETED.
C15_MostRecentOpenConversation ==
    [][ev'.op = "inbound" =>
          LET k == ev'.conversation_id
          IN  IF k = 0 THEN OpenFor(lastIn'.from_number) = {}
              ELSE /\ k \in OpenFor(lastIn'.from_number)
                   /\ \A j \in OpenFor(lastIn'.from_number) :
                         conversations[j].last_message_at
                             <= conversations[k].last_message_at
                   /\ \A j \in 1..Len(conversations) :
                         j # k => conversations'[j] = conversations[j]
                   /\ \A c \in 1..Len(contacts) :
                         c # conversations[k].contact_id
                             => contacts'[c] = contacts[c]
                   /\ \A m \in (Len(messages) + 1)..Len(messages') :
                         messages'[m].conversation_id = k
      ]_vars

\* C15 happens: a reply was applied to the open conversation of one lead ten
\* minutes or more after the conversation of the other lead was COMPLETED.
C15_Witness ==
    /\ ev.op = "inbound"
    /\ ev.conversation_id # 0
    /\ ev.committed
    /\ \E j \in 1..Len(conversations) :
          /\ j # ev.conversation_id
          /\ conversations[j].state = COMPLETED
          /\ conversations[j].completed_at < now

\* C16: a message from a number that has no conversation other than
\* COMPLETED ones makes the webhook ask the gateway for exactly one message,
\* the "no active conversation" notice to the sender, and leaves every
\* contact, conversation and message row as it was, adding none.
C16_NoActiveConversationNotice ==
    [][(ev'.op = "inbound" /\ OpenFor(lastIn'.from_number) = {}) =>
          /\ Len(ev'.sends) = 1
          /\ ev'.sends[1].kind = "no_active_conversation"
          /\ ev'.sends[1].to = lastIn'.from_number
          /\ ev'.conversation_id = 0
          /\ contacts' = contacts
          /\ conversations' = conversations
          /\ messages' = messages
      ]_vars

\* C16 happens: the technician wrote after their only conversation was
\* COMPLETED and got the notice.
C16_Witness ==
    /\ ev.op = "inbound"
    /\ ev.intent = "no_conversation"
    /\ lastIn.from_number = TechPhone
    /\ Len(conversations) > 0
    /\ \A j \in 1..Len(conversations) : conversations[j].state = COMPLETED
    /\ Len(ev.sends) = 1 /\ ev.sends[1].ok

\* C17: a conversation that is COMPLETED stays COMPLETED with the
\* completed_at it has, whatever arrives or runs next, and no step asks the
\* gateway for a message on its behalf.
C17_CompletedIsTerminal ==
    [][\A k \in 1..Len(conversations) :
          conversations[k].state = COMPLETED =>
              /\ conversations'[k].state = COMPLETED
              /\ conversations'[k].completed_at = conversations[k].completed_at
              /\ \A i \in 1..Len(ev'.sends) : ev'.sends[i].conversation_id # k
      ]_vars

\* C17 happens: two hours after a conversation was COMPLETED, and ten minutes
\* or more after its last message, a tick sent something for the other lead
\* and nothing for the completed one.
C17_Witness ==
    /\ ev.op = "tick"
    /\ Len(ev.sends) > 0
    /\ \E k \in 1..Len(conversations) :
          /\ conversations[k].state = COMPLETED
          /\ conversations[k].completed_at <= now - TwoHours
          /\ conversations[k].last_message_at <= now - TenMinutes

\* the text of the follow-up question of _send_follow_up_sms, which the test
\* endpoint sends too; {full_name} stands for the contact's name
FollowUpText ==
    "Hi Rudy, were you able to make contact with {full_name} yet? Reply YES or NO."

\* the text the handlers pass to send_sms for a question or for asking again
TextOf(kind) ==
    CASE kind \in {"initial_prompt", "test_followup"} -> FollowUpText
      [] kind = "confirmation_reprompt" ->
            "Please reply YES or NO. Were you able to make contact with {full_name}?"
      [] kind = "outcome_prompt" ->
            "Great! What was the outcome with {full_name}?\n\nReply with:\n1 - Appointment set\n2 - Looking for quotes\n3 - Waste of time\n4 - Something else"
      [] kind = "outcome_reprompt" ->
            "Please reply with:\n1 - Appointment set\n2 - Looking for quotes\n3 - Waste of time\n4 - Something else"
      [] kind = "project_type_prompt" ->
            "Great! I need a few details to create the project for {full_name}.\n\nWhat type of project?\n1 - Emergency Mitigation Services\n2 - Mold\n3 - Reconstruction\n4 - Sewage\n5 - Biohazard\n6 - Contents\n7 - Vandalism"
      [] kind = "project_type_reprompt" ->
            "Please reply with:\n1 - Emergency Mitigation Services\n2 - Mold\n3 - Reconstruction\n4 - Sewage\n5 - Biohazard\n6 - Contents\n7 - Vandalism"
      [] kind = "property_type_prompt" ->
            "What type of property?\n1 - Residential\n2 - Commercial"
      [] kind = "property_type_reprompt" ->
            "Please reply with:\n1 - Residential\n2 - Commercial"
      [] kind = "residential_subtype_prompt" ->
            "What type of residential property?\n1 - Single Family Home\n2 - Multi-Family Home\n3 - Manufactured Home"
      [] kind = "residential_subtype_reprompt" ->
            "Please reply with:\n1 - Single Family Home\n2 - Multi-Family Home\n3 - Manufactured Home"
      [] kind = "insurance_prompt" ->
            "Do they have insurance? Reply YES or NO"
      [] kind = "insurance_reprompt" ->
            "Please reply YES or NO. Do they have insurance?"
      [] kind = "insurance_company_prompt" ->
            "What insurance company?"
      [] kind = "referral_source_prompt" ->
            "How did they hear about us?\n1 - Customer Referral\n2 - Industry Partner\n3 - Insurance Referral\n4 - Lead Gen\n5 - Online Marketing\n6 - Plumber"
      [] kind = "referral_source_reprompt" ->
            "Please reply with:\n1 - Customer Referral\n2 - Industry Partner\n3 - Insurance Referral\n4 - Lead Gen\n5 - Online Marketing\n6 - Plumber"

\* the kinds of the message that is sent when a conversation enters a state
PromptOf(state) ==
    CASE state = AWAITING_CONTACT_CONFIRMATION -> {"initial_prompt", "test_followup"}
      [] state = AWAITING_OUTCOME -> {"outcome_prompt"}
      [] state = AWAITING_PROJECT_TYPE -> {"project_type_prompt"}
      [] state = AWAITING_PROPERTY_TYPE -> {"property_type_prompt"}
      [] state = AWAITING_RESIDENTIAL_SUBTYPE -> {"residential_subtype_prompt"}
      [] state = AWAITING_INSURANCE -> {"insurance_prompt"}
      [] state = AWAITING_INSURANCE_COMPANY -> {"insurance_company_prompt"}
      [] state = AWAITING_REFERRAL_SOURCE -> {"referral_source_prompt"}
      [] OTHER -> {}

\* the rows of the prompts that were sent when the conversation k entered
\* the state
PromptRows(k, state) ==
    {m \in 1..Len(messages) :
        /\ messages[m].conversation_id = k
        /\ messages[m].direction = "outbound"
        /\ messages[m].kind \in PromptOf(state)}

\* C18: the message that answers an unrecognized reply, when the gateway
\* takes it, has the text of the prompt that was sent when the conversation
\* entered the state it is in.
C18_RepromptIsThePrompt ==
    (Handled_(ev) /\ ev.intent = "unrecognized" /\ ev.sends[1].ok) =>
        \A m \in PromptRows(ev.conversation_id, ev.pre_state) :
            TextOf(ev.sends[1].kind) = TextOf(messages[m].kind)

\* the kinds of message that ask the question of a state
QuestionsOf(state) ==
    PromptOf(state) \cup {RepromptOf(state)}
        \cup (IF state = AWAITING_CONTACT_CONFIRMATION
              THEN {"retry_prompt", "persistence_activated",
                    "persistence_reminder"}
              ELSE {})

\* every kind of message that asks a question
Questions == UNION {QuestionsOf(s) : s \in HandlerStates}

\* C19: a webhook call that leaves the conversation in a state other than
\* COMPLETED delivers no question but one of that state, and when it has
\* moved the conversation to that state it has delivered one of its
\* questions, so that the question delivered last stays the one of the
\* persisted state.
C19_NoDesync ==
    [][Handled_(ev') =>
          LET k == ev'.conversation_id
              delivered == {ev'.sends[i].kind : i \in
                              {j \in 1..Len(ev'.sends) : ev'.sends[j].ok}}
          IN  conversations'[k].state # COMPLETED =>
                /\ delivered \cap Questions
                       \subseteq QuestionsOf(conversations'[k].state)
                /\ conversations'[k].state # conversations[k].state
                       => delivered \cap QuestionsOf(conversations'[k].state) # {}
      ]_vars

\* the options of the outcome question and of the project type question, in
\* the order of their numbers, each with its keywords
OutcomeOptions ==
    << [digit |-> <<"1">>, name |-> "appointment_set",
        words |-> appointment_words \ {<<"1">>}],
       [digit |-> <<"2">>, name |-> "looking_for_quotes",
        words |-> quotes_words \ {<<"2">>}],
       [digit |-> <<"3">>, name |-> "waste_of_time",
        words |-> waste_words \ {<<"3">>}],
       [digit |-> <<"4">>, name |-> "something_else",
        words |-> else_words \ {<<"4">>}] >>

ProjectTypeOptions ==
    << [digit |-> <<"1">>, name |-> "Emergency Mitigation Services",
        words |-> {<<"e","m","e","r","g","e","n","c","y">>, <<"m","i","t","i","g","a","t","i","o","n">>, <<"e","m","s">>}],
       [digit |-> <<"2">>, name |-> "Mold",
        words |-> {<<"m","o","l","d">>}],
       [digit |-> <<"3">>, name |-> "Reconstruction",
        words |-> {<<"r","e","c","o","n","s","t","r","u","c","t","i","o","n">>}],
       [digit |-> <<"4">>, name |-> "Sewage",
        words |-> {<<"s","e","w","a","g","e">>}],
       [digit |-> <<"5">>, name |-> "Biohazard",
        words |-> {<<"b","i","o","h","a","z","a","r","d">>}],
       [digit |-> <<"6">>, name |-> "Contents",
        words |-> {<<"c","o","n","t","e","n","t","s">>}],
       [digit |-> <<"7">>, name |-> "Vandalism",
        words |-> {<<"v","a","n","d","a","l","i","s","m">>}] >>

\* the options whose digit the reply contains, and those it has a keyword of
DigitOptions(options, response) ==
    {i \in 1..Len(options) : Contains(response, options[i].digit)}

KeywordOptions(options, response) ==
    {i \in 1..Len(options) : ContainsAny(response, options[i].words)}

\* a reply with the digit of one option selects that option; one without a
\* digit and with a keyword selects the first option it has a keyword of
NumericPriority(options, response, intent) ==
    /\ \A i \in 1..Len(options) :
          DigitOptions(options, response) = {i} => intent = options[i].name
    /\ (/\ DigitOptions(options, response) = {}
        /\ KeywordOptions(options, response) # {})
          => intent = options[Min(KeywordOptions(options, response))].name

\* C20: in AWAITING_OUTCOME and in AWAITING_PROJECT_TYPE a reply that
\* contains the digit of an option selects the option of that number, also
\* when it contains a keyword of another option; a reply without a digit
\* selects the first option, in the order of the numbers, that it contains a
\* keyword of.
C20_NumericPriority ==
    Handled_(ev) =>
        /\ ev.pre_state = AWAITING_OUTCOME
              => NumericPriority(OutcomeOptions, strip(lower(lastIn.body)),
                                 ev.intent)
        /\ ev.pre_state = AWAITING_PROJECT_TYPE
              => NumericPriority(ProjectTypeOptions,
                                 lower(strip(lastIn.body)), ev.intent)

\* C21: no step lowers the last_message_at of a conversation, and no step
\* removes a conversation.
C21_LastMessageAtMonotonic ==
    [][/\ Len(conversations') >= Len(conversations)
       /\ \A k \in 1..Len(conversations) :
             conversations'[k].last_message_at
                 >= conversations[k].last_message_at
      ]_vars

\* C21 happens: a reply was handled and committed for a conversation that a
\* persistence message had stamped after its follow-up.
C21_Witness ==
    /\ Handled_(ev)
    /\ ev.committed
    /\ conversations[ev.conversation_id].last_message_at = now
    /\ \E m \in 1..Len(messages) :
          /\ messages[m].conversation_id = ev.conversation_id
          /\ messages[m].kind \in {"persistence_activated",
                                   "persistence_reminder"}
    /\ now >= TenMinutes + TenMinutes

\* the text the reminder shall carry for a due date: MM/DD/YYYY, the hour of
\* the 12-hour clock without a leading zero, the minutes, and a.m. or p.m.
DueText(d) ==
    LET hour12 == IF d.hour % 12 = 0 THEN 12 ELSE d.hour % 12
    IN  ZeroPadded(d.month, 2) \o <<"/">> \o ZeroPadded(d.day, 2) \o <<"/">>
            \o ZeroPadded(d.year, 4) \o <<" ">>
            \o (IF hour12 < 10 THEN ZeroPadded(hour12, 1)
                ELSE ZeroPadded(hour12, 2))
            \o <<":">> \o ZeroPadded(d.minute, 2) \o <<" ">>
            \o (IF d.hour < 12 THEN <<"a",".","m",".">>
                ELSE <<"p",".","m",".">>)

\* C22: the due date in a task reminder reads MM/DD/YYYY, then the time of
\* the 12-hour clock with no leading zero on the hour, then "a.m." or "p.m.".
C22_DueDateFormat ==
    reminder # NoReminder => reminder.body = DueText(reminder.due_date)

\* the changes of state the claim C23 lists
Edges ==
    {<<AWAITING_CONTACT_CONFIRMATION, AWAITING_OUTCOME>>,
     <<AWAITING_OUTCOME, AWAITING_PROJECT_TYPE>>,
     <<AWAITING_OUTCOME, COMPLETED>>,
     <<AWAITING_PROJECT_TYPE, AWAITING_PROPERTY_TYPE>>,
     <<AWAITING_PROPERTY_TYPE, AWAITING_RESIDENTIAL_SUBTYPE>>,
     <<AWAITING_PROPERTY_TYPE, AWAITING_INSURANCE>>,
     <<AWAITING_RESIDENTIAL_SUBTYPE, AWAITING_INSURANCE>>,
     <<AWAITING_INSURANCE, AWAITING_INSURANCE_COMPANY>>,
     <<AWAITING_INSURANCE, AWAITING_REFERRAL_SOURCE>>,
     <<AWAITING_INSURANCE_COMPANY, AWAITING_REFERRAL_SOURCE>>,
     <<AWAITING_REFERRAL_SOURCE, COMPLETED>>}

\* C23: a step changes the state of a conversation along one of the listed
\* edges only, a conversation a step creates is in
\* AWAITING_CONTACT_CONFIRMATION, and no conversation is in a state other
\* than the eight states that have a handler and COMPLETED.
C23_OnlyListedEdges ==
    [][/\ \A k \in 1..Len(conversations) :
             conversations'[k].state # conversations[k].state
                 => <<conversations[k].state, conversations'[k].state>> \in Edges
       /\ \A k \in (Len(conversations) + 1)..Len(conversations') :
             conversations'[k].state = AWAITING_CONTACT_CONFIRMATION
       /\ \A k \in 1..Len(conversations') :
             conversations'[k].state \in HandlerStates \cup {COMPLETED}
      ]_vars

\* C23 happens: a conversation went from the confirmation through the
\* outcome, the project type, the property type, the insurance and the
\* insurance company to the referral source.
C23_Witness ==
    \E k \in 1..Len(conversations) :
        /\ conversations[k].state = AWAITING_REFERRAL_SOURCE
        /\ contacts[conversations[k].contact_id].insurance_company # <<>>
        /\ contacts[conversations[k].contact_id].property_type # None

\* the contacts with a conversation that awaits the confirmation and is not
\* completed
AwaitingConfirmation ==
    {conversations[k].contact_id : k \in
        {j \in 1..Len(conversations) :
            /\ conversations[j].state = AWAITING_CONTACT_CONFIRMATION
            /\ conversations[j].completed_at = NoTime}}

\* C24: a tick passes a retry prompt to the gateway for a contact whose
\* conversation awaits the confirmation exactly when last_retry_at is set and
\* two hours old or older, and then it passes one; when the gateway takes it
\* last_retry_at becomes the time of the tick, otherwise last_retry_at stays;
\* so a retry prompt that is sent is followed by the next one no sooner than
\* two hours later, and by one in the first tick from then on.
C24_RetryEveryTwoHours ==
    [][ev'.op = "tick" =>
          \A c \in 1..Len(contacts) :
              LET due == /\ c \in AwaitingConfirmation
                         /\ contacts[c].last_retry_at # NoTime
                         /\ contacts[c].last_retry_at <= now - TwoHours
                  retries == SendsFor(ev', c, {"retry_prompt"})
              IN  /\ Cardinality(retries) = IF due THEN 1 ELSE 0
                  /\ contacts'[c].last_retry_at =
                        IF \E i \in retries : ev'.sends[i].ok
                        THEN now
                        ELSE contacts[c].last_retry_at
      ]_vars

\* C24 happens: the second retry prompt was sent, two hours after the first
\* and four hours after the NO.
C24_Witness ==
    /\ ev.op = "tick"
    /\ \E c \in 1..Len(contacts) :
          /\ \E i \in SendsFor(ev, c, {"retry_prompt"}) : ev.sends[i].ok
          /\ contacts[c].last_retry_at = now
          /\ now >= TwoHours + TwoHours
          /\ Cardinality({m \in 1..Len(messages) :
                            /\ messages[m].contact_id = c
                            /\ messages[m].kind = "retry_prompt"}) = 2

\* the messages an operation delivered for the conversation k
DeliveredFor(e, k) ==
    {i \in 1..Len(e.sends) : e.sends[i].conversation_id = k /\ e.sends[i].ok}

\* C25: a tick sends a persistence message for a conversation only when no
\* message was delivered for the conversation in the ten minutes before: none by the operation that ran just before the
\* tick, at the same time, none earlier in the same tick, and none that
\* last_message_at records.
C25_TenMinutesSinceLastOutbound ==
    [][ev'.op = "tick" =>
          \A i \in 1..Len(ev'.sends) :
              (/\ ev'.sends[i].kind \in {"persistence_activated",
                                         "persistence_reminder"}
               /\ ev'.sends[i].ok) =>
                  LET k == ev'.sends[i].conversation_id
                  IN  /\ DeliveredFor(ev, k) = {}
                      /\ \A j \in DeliveredFor(ev', k) : j >= i
                      /\ conversations[k].last_message_at <= now - TenMinutes
      ]_vars

\* C26: when the gateway refuses the follow-up question of a contact, the
\* scheduled job leaves the contact as it was, with the status
\* FOLLOW_UP_SCHEDULED, and persists no conversation for it.
C26_FailedFollowUpLeavesNothing ==
    [][ev'.op = "follow_ups" =>
          \A i \in 1..Len(ev'.sends) :
              ~ev'.sends[i].ok =>
                  LET c == ev'.sends[i].contact_id
                  IN  /\ contacts'[c] = contacts[c]
                      /\ contacts'[c].status = "follow_up_scheduled"
                      /\ \A k \in (Len(conversations) + 1)..Len(conversations') :
                            conversations'[k].contact_id # c
      ]_vars

\* C27: a reply that is, in any letter case, one of the NO keywords is
\* handled as NO, and one that is one of the YES keywords is handled as YES,
\* by the confirmation and by the insurance question.
C27_KeywordsClassified ==
    (/\ Handled_(ev)
     /\ ev.pre_state \in {AWAITING_CONTACT_CONFIRMATION, AWAITING_INSURANCE}) =>
        /\ lower(lastIn.body) \in no_patterns => ev.intent = "NO"
        /\ lower(lastIn.body) \in yes_patterns => ev.intent = "YES"

\* C28: a reply to the outcome question that is classified as an appointment
\* (the reply "1" is) sets the outcome of the conversation and of the contact
\* to APPOINTMENT_SET and project_creation_needed to true, moves the
\* conversation to AWAITING_PROJECT_TYPE and leaves completed_at unset.
C28_AppointmentStartsProject ==
    (/\ Handled_(ev)
     /\ ev.pre_state = AWAITING_OUTCOME
     /\ \/ ev.intent = "appointment_set"
        \/ strip(lower(lastIn.body)) = <<"1">>) =>
        /\ ev.intent = "appointment_set"
        /\ ev.committed
        /\ conversations[ev.conversation_id].outcome = "appointment_set"
        /\ EventContact.outcome = "appointment_set"
        /\ EventContact.project_creation_needed
        /\ conversations[ev.conversation_id].state = AWAITING_PROJECT_TYPE
        /\ conversations[ev.conversation_id].completed_at = NoTime

\* C28 happens: the technician reported an appointment by a keyword and was
\* asked for the project type.
C28_Witness ==
    /\ Handled_(ev)
    /\ ev.pre_state = AWAITING_OUTCOME
    /\ ev.intent = "appointment_set"
    /\ lastIn.body = <<"A","p","p","t">>
    /\ ev.sends[1].ok

\* C29: a reply to the outcome question that is classified as quotes, waste
\* of time or something else (the replies "2", "3" and "4" are) sets the
\* outcome of the conversation and of the contact to it, moves the
\* conversation to COMPLETED with completed_at set, marks the contact
\* COMPLETED, leaves project_creation_needed as it was, and sends the
\* acknowledgment and no question.
C29_OtherOutcomesComplete ==
    [][(/\ Handled_(ev')
        /\ ev'.pre_state = AWAITING_OUTCOME
        /\ \/ ev'.intent \in {"looking_for_quotes", "waste_of_time",
                              "something_else"}
           \/ strip(lower(lastIn'.body)) \in {<<"2">>, <<"3">>, <<"4">>}) =>
          LET k == ev'.conversation_id
              c == conversations[k].contact_id
          IN  /\ strip(lower(lastIn'.body)) = <<"2">>
                    => ev'.intent = "looking_for_quotes"
              /\ strip(lower(lastIn'.body)) = <<"3">>
                    => ev'.intent = "waste_of_time"
              /\ strip(lower(lastIn'.body)) = <<"4">>
                    => ev'.intent = "something_else"
              /\ conversations'[k].outcome = ev'.intent
              /\ contacts'[c].outcome = ev'.intent
              /\ conversations'[k].state = COMPLETED
              /\ conversations'[k].completed_at = now
              /\ contacts'[c].status = "completed"
              /\ contacts'[c].project_creation_needed
                     = contacts[c].project_creation_needed
              /\ Len(ev'.sends) = 1
              /\ ev'.sends[1].kind = "outcome_acknowledgment"
      ]_vars

\* C29 happens: ten minutes or more after the follow-up the technician
\* reported a waste of time and the conversation was completed.
C29_Witness ==
    /\ Handled_(ev)
    /\ ev.pre_state = AWAITING_OUTCOME
    /\ ev.intent = "waste_of_time"
    /\ ev.sends[1].ok
    /\ now >= TenMinutes
    /\ conversations[ev.conversation_id].completed_at = now

\* C30: the answer "1" to the property type question is a Residential answer
\* and "2" a Commercial one; a Residential answer stores Residential and
\* moves the conversation to AWAITING_RESIDENTIAL_SUBTYPE, a Commercial one
\* stores Commercial, moves it to AWAITING_INSURANCE and leaves the subtype
\* alone; a conversation enters AWAITING_RESIDENTIAL_SUBTYPE only with the
\* property type Residential, and residential_subtype is written only while
\* the property type is Residential.
C30_SubtypeOnlyForResidential ==
    [][/\ (Handled_(ev') /\ ev'.pre_state = AWAITING_PROPERTY_TYPE) =>
             LET k == ev'.conversation_id
                 c == conversations[k].contact_id
                 response == lower(strip(lastIn'.body))
             IN  /\ response = <<"1">> => ev'.intent = "Residential"
                 /\ response = <<"2">> => ev'.intent = "Commercial"
                 /\ ev'.intent = "Residential" =>
                       /\ contacts'[c].property_type = "Residential"
                       /\ conversations'[k].state = AWAITING_RESIDENTIAL_SUBTYPE
                 /\ ev'.intent = "Commercial" =>
                       /\ contacts'[c].property_type = "Commercial"
                       /\ conversations'[k].state = AWAITING_INSURANCE
                       /\ contacts'[c].residential_subtype
                              = contacts[c].residential_subtype
       /\ \A k \in 1..Len(conversations') :
             (/\ conversations'[k].state = AWAITING_RESIDENTIAL_SUBTYPE
              /\ (k > Len(conversations)
                   \/ conversations[k].state # AWAITING_RESIDENTIAL_SUBTYPE)) =>
                 contacts'[conversations'[k].contact_id].property_type
                     = "Residential"
       /\ \A c \in 1..Len(contacts) :
             contacts'[c].residential_subtype # contacts[c].residential_subtype
                 => /\ contacts[c].property_type = "Residential"
                    /\ contacts'[c].property_type = "Residential"
      ]_vars

\* C30 happens: a Commercial answer took the conversation to the insurance
\* question with no subtype stored.
C30_Witness ==
    /\ Handled_(ev)
    /\ ev.pre_state = AWAITING_PROPERTY_TYPE
    /\ ev.intent = "Commercial"
    /\ conversations[ev.conversation_id].state = AWAITING_INSURANCE
    /\ EventContact.property_type = "Commercial"
    /\ EventContact.residential_subtype = None

\* C31: a reply to the insurance company question moves the conversation to
\* AWAITING_REFERRAL_SOURCE, with the stripped text as insurance_company,
\* when the stripped text is not empty, and otherwise leaves the state and
\* insurance_company as they were.
C31_EmptyCompanyRefused ==
    [][(Handled_(ev') /\ ev'.pre_state = AWAITING_INSURANCE_COMPANY) =>
          LET k == ev'.conversation_id
              c == conversations[k].contact_id
              text == strip(lastIn'.body)
          IN  IF text # <<>>
              THEN /\ conversations'[k].state = AWAITING_REFERRAL_SOURCE
                   /\ contacts'[c].insurance_company = <<text>>
              ELSE /\ conversations'[k].state = AWAITING_INSURANCE_COMPANY
                   /\ contacts'[c].insurance_company
                          = contacts[c].insurance_company
      ]_vars

\* the six referral sources of the prompt
ReferralSources == {referral_map[k] : k \in DOMAIN referral_map}

\* C32: a recognized reply to the referral source question stores one of the
\* six sources, moves the conversation to COMPLETED with completed_at set,
\* marks the contact COMPLETED and sends one message, the summary; a NO to
\* the insurance question moves the conversation to AWAITING_REFERRAL_SOURCE
\* with has_insurance false and does not write insurance_company.
C32_ReferralCompletes ==
    [][Handled_(ev') =>
          LET k == ev'.conversation_id
              c == conversations[k].contact_id
          IN  /\ (/\ ev'.pre_state = AWAITING_REFERRAL_SOURCE
                  /\ ev'.intent # "unrecognized") =>
                    /\ contacts'[c].referral_source \in ReferralSources
                    /\ conversations'[k].state = COMPLETED
                    /\ conversations'[k].completed_at = now
                    /\ contacts'[c].status = "completed"
                    /\ Len(ev'.sends) = 1
                    /\ ev'.sends[1].kind = "summary"
              /\ (/\ ev'.pre_state = AWAITING_INSURANCE
                  /\ ev'.intent = "NO") =>
                    /\ conversations'[k].state = AWAITING_REFERRAL_SOURCE
                    /\ contacts'[c].has_insurance = "False"
                    /\ contacts'[c].insurance_company
                           = contacts[c].insurance_company
      ]_vars

\* C32 happens: after a NO to the insurance question the referral source was
\* given and the summary was sent, with no insurance company stored.
C32_Witness ==
    /\ Handled_(ev)
    /\ ev.pre_state = AWAITING_REFERRAL_SOURCE
    /\ ev.sends[1].kind = "summary"
    /\ ev.sends[1].ok
    /\ EventContact.has_insurance = "False"
    /\ EventContact.insurance_company = <<>>
    /\ EventContact.referral_source \in ReferralSources

\* the seven project types of the prompt
ProjectTypes == {project_type_map[k] : k \in DOMAIN project_type_map}

\* C33: a reply to the project type question that is a digit from 1 to 7
\* stores the category of that number; a reply that the mapping of the
\* handler resolves to a category is accepted and stores that category; an
\* accepted reply moves the conversation to AWAITING_PROPERTY_TYPE; and the
\* project_type stored is one of the seven categories.
C33_ProjectTypeAccepted ==
    (Handled_(ev) /\ ev.pre_state = AWAITING_PROJECT_TYPE) =>
        LET response == lower(strip(lastIn.body))
        IN  /\ ProjectTypeMapping(response) # None =>
                  /\ ev.intent = ProjectTypeMapping(response)
                  /\ EventContact.project_type = ProjectTypeMapping(response)
            /\ ev.intent # "unrecognized" =>
                  /\ conversations[ev.conversation_id].state
                         = AWAITING_PROPERTY_TYPE
                  /\ EventContact.project_type \in ProjectTypes

\* the rows of the second table that the first does not hold
AddedRows(before, after) == {i \in 1..Len(after) : i > Len(before)}

\* the contacts and conversations for which the operation of e called send_sms
Processed(e) ==
    [contacts |-> {e.sends[i].contact_id : i \in 1..Len(e.sends)},
     conversations |-> {e.sends[i].conversation_id : i \in 1..Len(e.sends)}]

LastPrompt(e) ==
    LET accepted == {i \in 1..Len(e.sends) :
                        /\ e.sends[i].ok
                        /\ e.sends[i].to = TechPhone
                        /\ e.sends[i].conversation_id # 0}
    IN  IF accepted = {} THEN 0
        ELSE e.sends[CHOOSE i \in accepted :
                        \A j \in accepted : j <= i].conversation_id

\* the conversations open on the technician's phone carry different stamps,
\* as the values of successive utcnow() calls do
DistinctStamps ==
    \A i, j \in ActiveConversations(Database, TechPhone) :
        i # j => conversations[i].last_message_at
                    # conversations[j].last_message_at

\* C35: when several conversations are open on the technician's phone, a
\* reply that arrives right after an operation that sent its last message
\* for one of them (a follow-up, a prompt, a re-prompt, a retry prompt or a
\* persistence message) is applied to that conversation.
C35_ReplyGoesToLastPrompted ==
    [][(/\ ev'.op = "inbound"
        /\ lastIn'.from_number = TechPhone
        /\ Cardinality(ActiveConversations(Database, TechPhone)) >= 2
        /\ DistinctStamps
        /\ LastPrompt(ev) \in ActiveConversations(Database, TechPhone))
          => ev'.conversation_id = LastPrompt(ev)]_vars

\* the contacts for which the job of event e opened a browser session
Attempted(e) == {e.sends[i].contact_id : i \in 1..Len(e.sends)}

\* C36: every contact for which the project creation job attempts to create
\* a project has its qualification conversation in COMPLETED, with
\* project_type, property_type, has_insurance and referral_source stored.
C36_CreationAfterCompletion ==
    ev.op = "project_creation" =>
        \A c \in Attempted(ev) :
            /\ \A k \in 1..Len(conversations) :
                  conversations[k].contact_id = c
                      => conversations[k].state = COMPLETED
            /\ contacts[c].project_type # None
            /\ contacts[c].property_type # None
            /\ contacts[c].has_insurance # None
            /\ contacts[c].referral_source # None

\* C37: a conversation has completed_at set exactly when its state is
\* COMPLETED.
C37_CompletedAtIffCompleted ==
    \A k \in 1..Len(conversations) :
        conversations[k].completed_at # NoTime
            <=> conversations[k].state = COMPLETED

\* an outcome other than an appointment has closed the conversation
C37_Witness ==
    /\ Handled_(ev)
    /\ ev.committed
    /\ ev.pre_state = AWAITING_OUTCOME
    /\ conversations[ev.conversation_id].state = COMPLETED
    /\ conversations[ev.conversation_id].completed_at = now

\* C38: a reply to the referral question that equals, in any letter case,
\* the label of option k of the prompt stores that label as referral_source,
\* as the digit k does.
C38_LabelStoresItsOption ==
    (Handled_(ev) /\ ev.pre_state = AWAITING_REFERRAL_SOURCE) =>
        \A k \in DOMAIN referral_labels :
            lower(strip(lastIn.body)) = lower(referral_labels[k])
                => /\ ev.intent = referral_map[k]
                   /\ EventContact.referral_source = referral_map[k]
                   /\ ReferralSourceOf(k) = referral_map[k]

\* the position of a state in the order of the questions
Rank(state) ==
    CASE state = AWAITING_CONTACT_CONFIRMATION -> 1
      [] state = AWAITING_OUTCOME -> 2
      [] state = AWAITING_PROJECT_TYPE -> 3
      [] state = AWAITING_PROPERTY_TYPE -> 4
      [] state = AWAITING_RESIDENTIAL_SUBTYPE -> 5
      [] state = AWAITING_INSURANCE -> 6
      [] state = AWAITING_INSURANCE_COMPANY -> 7
      [] state = AWAITING_REFERRAL_SOURCE -> 8
      [] state = COMPLETED -> 9

\* the replies committed for conversation k, the NO replies to the
\* confirmation question left out
RepliesAfterNo(k) ==
    Cardinality({i \in InboundRows(messages) :
                    messages[i].conversation_id = k})
        - contacts[conversations[k].contact_id].retry_count

\* C39: no step moves a conversation to an earlier state; every reply that
\* its state recognizes, the NO to the confirmation question apart, moves
\* the conversation to a later state; and a conversation has taken at most
\* as many such replies as it has moved on, which makes eight for a
\* completed one.
C39_QualificationTerminates ==
    [][/\ \A k \in 1..Len(conversations) :
             Rank(conversations'[k].state) >= Rank(conversations[k].state)
       /\ (/\ Handled_(ev')
           /\ messages' # messages
           /\ ev'.intent # "unrecognized"
           /\ ~(ev'.pre_state = AWAITING_CONTACT_CONFIRMATION
                   /\ ev'.intent = "NO"))
             => Rank(conversations'[ev'.conversation_id].state)
                   > Rank(ev'.pre_state)
       /\ \A k \in 1..Len(conversations') :
             /\ RepliesAfterNo(k)' <= Rank(conversations'[k].state) - 1
             /\ RepliesAfterNo(k)' <= 8
      ]_vars

\* a conversation is completed by its eighth reply, the subtype and the
\* insurance company asked on the way
C39_Witness ==
    \E k \in 1..Len(conversations) :
        /\ conversations[k].state = COMPLETED
        /\ RepliesAfterNo(k) = 8
        /\ contacts[conversations[k].contact_id].retry_count = 0
        /\ contacts[conversations[k].contact_id].residential_subtype # None
        /\ contacts[conversations[k].contact_id].insurance_company # <<>>

\* C40: no task has more reminder Notification rows than
\* max_reminders_per_task.
C40_RemindersCapped ==
    \A task_id \in 1..Len(Tasks) :
        Cardinality(NotificationsOf(notifications, task_id))
            <= max_reminders_per_task

====
